---------------------------- MODULE Spec2Model ----------------------------
(***************************************************************************)
(* The adaptive fetch pipeline of the crawler service: the request handler *)
(* of POST /api/fetch (explicit engine, cached profile, base64 fast lane,  *)
(* auto-retry escalation), the content quality heuristics, the domain      *)
(* profile repository (SQLite table domain_profiles) and the admin routes  *)
(* over it.                                                                *)
(*                                                                         *)
(* Node runs the handlers on one thread: a handler runs without            *)
(* interruption from one await to the next.  Each action below is one such *)
(* stretch of handleFetchRequest or one whole synchronous admin handler.   *)
(***************************************************************************)
EXTENDS Integers, Sequences, FiniteSets, TLC

(***************************************************************************)
(* Bounds of the model.                                                    *)
(***************************************************************************)
\* number of operator actions in one run: admin operations on the profile table
\* (POST, DELETE /api/domain-profiles) and configuration updates (POST /api/config)
MaxOperatorOps == 1

\* the fetch requests of one run; they may overlap in any way
Requests == {"r1", "r2"}

(***************************************************************************)
(* URLs.  A URL is a record; its host is the sequence of its labels as     *)
(* written by the caller (case kept).                                      *)
(***************************************************************************)
NoUrl == [scheme |-> "", host |-> << >>, port |-> "", path |-> ""]

Urls ==
  { [scheme |-> "https", host |-> <<"WWW", "Example", "com">>, port |-> "", path |-> "/foo"],
    [scheme |-> "http", host |-> <<"example", "com">>, port |-> "8080", path |-> ""],
    [scheme |-> "https", host |-> <<"api", "example", "com">>, port |-> "", path |-> "/spa"],
    [scheme |-> "http", host |-> <<"blocked", "test">>, port |-> "", path |-> "/a"] }

\* String.prototype.toLowerCase on the labels the model uses
LowerLabel(l) ==
  CASE l = "WWW" -> "www"
    [] l = "Example" -> "example"
    [] OTHER -> l

toLowerCase(host) == [i \in DOMAIN host |-> LowerLabel(host[i])]

\* an extractDomain that compares the hostname as typed
extractDomainCaseSensitive(url) ==
  IF Len(url.host) > 1 /\ url.host[1] = "www" THEN Tail(url.host) ELSE url.host

\* hostname.startsWith("www.") then slice(4): one leading label "www" that is
\* followed by a dot, i.e. by at least one more label
extractDomain(url) ==
  LET hostname == toLowerCase(url.host)
  IN IF Len(hostname) > 1 /\ hostname[1] = "www" THEN Tail(hostname) ELSE hostname

\* keys the profile table can hold: what a fetch computes and what an admin types
Hosts == {u.host : u \in Urls} \cup {extractDomain(u) : u \in Urls}

(***************************************************************************)
(* Page bodies, by the features the quality heuristics read.               *)
(***************************************************************************)
Body(len, shell, tags, struct) ==
  [length |-> len, spaShell |-> shell, textTagCount |-> tags, hasStructure |-> struct]

NoBody == Body(0, FALSE, 0, FALSE)
\* <html><body><div id="root"></div></body></html>
EmptyShell120 == Body(120, TRUE, 0, FALSE)
\* a challenge page
Challenge600 == Body(600, FALSE, 1, FALSE)
\* an article with 4 <p> elements
Article1200 == Body(1200, FALSE, 4, FALSE)
\* a shell that carries some text and structure but is still short
Shell1500 == Body(1500, TRUE, 4, TRUE)
\* <body><noscript>... shell of 3 KB
Shell3K == Body(3000, TRUE, 0, FALSE)
Rendered7K == Body(7000, FALSE, 12, TRUE)
Rendered15K == Body(15000, FALSE, 30, TRUE)

\* A judge that rejects every body with an empty SPA shell pattern, whatever its
\* length.
isContentSufficientAnyShell(content, statusCode) ==
  IF statusCode = 403 \/ statusCode = 429 \/ statusCode = 503 THEN FALSE
  ELSE IF content.length < 500 THEN FALSE
  ELSE IF content.spaShell THEN FALSE
  ELSE TRUE

\* A judge that accepts a body by its text elements only.
isContentSufficientWantsText(content, statusCode) ==
  IF statusCode = 403 \/ statusCode = 429 \/ statusCode = 503 THEN FALSE
  ELSE IF content.length < 500 THEN FALSE
  ELSE IF content.spaShell /\ content.length < 2000 THEN FALSE
  ELSE content.textTagCount >= 3 /\ content.length >= 1000

\* A judge whose last rule refuses a body without structural elements.
isContentSufficientNeedsStructure(content, statusCode) ==
  IF statusCode = 403 \/ statusCode = 429 \/ statusCode = 503 THEN FALSE
  ELSE IF content.length < 500 THEN FALSE
  ELSE IF content.spaShell /\ content.length < 2000 THEN FALSE
  ELSE IF content.textTagCount >= 3 /\ content.length >= 1000 THEN TRUE
  ELSE IF content.length > 5000 THEN TRUE
  ELSE content.hasStructure

\* A judge that looks at the text elements before the shell patterns.
isContentSufficientTextFirst(content, statusCode) ==
  IF statusCode = 403 \/ statusCode = 429 \/ statusCode = 503 THEN FALSE
  ELSE IF content.length < 500 THEN FALSE
  ELSE IF content.textTagCount >= 3 /\ content.length >= 1000 THEN TRUE
  ELSE IF content.spaShell /\ content.length < 2000 THEN FALSE
  ELSE TRUE

(***************************************************************************)
(* isContentSufficient(content, statusCode)                                *)
(***************************************************************************)
isContentSufficient(content, statusCode) ==
  IF statusCode = 403 \/ statusCode = 429 \/ statusCode = 503 THEN FALSE
  ELSE IF content.length < 500 THEN FALSE
  ELSE IF content.spaShell /\ content.length < 2000 THEN FALSE
  ELSE IF content.textTagCount >= 3 /\ content.length >= 1000 THEN TRUE
  ELSE IF content.length > 5000 THEN TRUE
  ELSE IF content.hasStructure THEN TRUE
  ELSE TRUE

(***************************************************************************)
(* The escalation chain.                                                   *)
(***************************************************************************)
Step(e, js, delay, proxy, l) ==
  [engine |-> e, renderJs |-> js, renderDelayMs |-> delay, useProxy |-> proxy, label |-> l]

NoStep == Step("", FALSE, 0, FALSE, "")

\* A chain builder that offers the local stealth browser only next to the
\* remote one.
getAvailableEscalationChainRemoteOnly(cfg) ==
  (IF cfg.proxyUrl # "" THEN << Step("fast", FALSE, 0, TRUE, "Fast + Proxy") >> ELSE << >>)
  \o << Step("fast", FALSE, 0, FALSE, "Fast + Direct") >>
  \o (IF cfg.browserlessUrl # ""
      THEN << Step("browser", TRUE, 2000, FALSE, "Browser Stealth + Direct"),
              Step("stealth", TRUE, 3000, FALSE, "Patchright Stealth 3s + Direct"),
              Step("stealth", TRUE, 5000, FALSE, "Patchright Stealth 5s + Direct"),
              Step("unblock", TRUE, 0, FALSE, "Browserless Unblock (nuclear)") >>
      ELSE << >>)

getAvailableEscalationChain(cfg) ==
  LET hasProxy == cfg.proxyUrl # ""
      hasBrowserless == cfg.browserlessUrl # ""
  IN (IF hasProxy THEN << Step("fast", FALSE, 0, TRUE, "Fast + Proxy") >> ELSE << >>)
     \o << Step("fast", FALSE, 0, FALSE, "Fast + Direct") >>
     \o (IF hasBrowserless
         THEN << Step("browser", TRUE, 2000, FALSE, "Browser Stealth + Direct"),
                 Step("stealth", TRUE, 3000, FALSE, "Patchright Stealth 3s + Direct"),
                 Step("stealth", TRUE, 5000, FALSE, "Patchright Stealth 5s + Direct"),
                 Step("unblock", TRUE, 0, FALSE, "Browserless Unblock (nuclear)") >>
         ELSE << Step("stealth", TRUE, 3000, FALSE, "Patchright Stealth 3s + Direct") >>)


(***************************************************************************)
(* The global configuration (proxy URL and browserless endpoint; "" is a   *)
(* field that is not configured).                                          *)
(***************************************************************************)
ProxyUrls == {"", "http://localhost:31131"}
BrowserlessUrls == {"", "ws://localhost:3000"}
Configs == [proxyUrl : ProxyUrls, browserlessUrl : BrowserlessUrls]

defaultConfig == [proxyUrl |-> "http://localhost:31131", browserlessUrl |-> "ws://localhost:3000"]

(***************************************************************************)
(* The domain profile repository: the rows of table domain_profiles.       *)
(* Booleans are kept as booleans (rowToProfile), a NULL preset is "null",  *)
(* a NULL last_status_code is 0.                                           *)
(***************************************************************************)
Row(d, e, js, delay, proxy, p, hits, status) ==
  [domain |-> d, engine |-> e, render_js |-> js, render_delay_ms |-> delay,
   use_proxy |-> proxy, preset |-> p, hit_count |-> hits, last_status_code |-> status]

\* what getProfile returns for a domain without row (undefined)
NoProfile == Row(<< >>, "", FALSE, 0, FALSE, "null", 0, 0)

\* input.f ?? dflt, for a field the caller may have left out
Opt(input, f, dflt) == IF f \in DOMAIN input THEN input[f] ELSE dflt

getProfile(rows, domain) ==
  IF \E row \in rows : row.domain = domain
  THEN CHOOSE row \in rows : row.domain = domain
  ELSE NoProfile

\* An insert that leaves an existing row of the domain as it is
\* (ON CONFLICT DO NOTHING).
upsertProfileIgnoreConflict(rows, domain, input) ==
  IF \E row \in rows : row.domain = domain
  THEN rows
  ELSE rows \cup {Row(domain, input.engine, Opt(input, "renderJs", FALSE),
                      Opt(input, "renderDelayMs", 0), Opt(input, "useProxy", TRUE),
                      Opt(input, "preset", "null"), 1, Opt(input, "lastStatusCode", 0))}

\* An insert into a table whose domain column is not UNIQUE.
upsertProfileAppending(rows, domain, input) ==
  rows \cup {Row(domain, input.engine, Opt(input, "renderJs", FALSE),
                 Opt(input, "renderDelayMs", 0), Opt(input, "useProxy", TRUE),
                 Opt(input, "preset", "null"), 1, Opt(input, "lastStatusCode", 0))}

\* INSERT ... ON CONFLICT(domain) DO UPDATE SET <config fields>, hit_count = hit_count + 1
upsertProfile(rows, domain, input) ==
  LET conflict == {row \in rows : row.domain = domain}
      engine == input.engine
      render_js == Opt(input, "renderJs", FALSE)
      render_delay_ms == Opt(input, "renderDelayMs", 0)
      use_proxy == Opt(input, "useProxy", TRUE)
      preset == Opt(input, "preset", "null")
      last_status_code == Opt(input, "lastStatusCode", 0)
  IN IF conflict = {}
     THEN rows \cup {Row(domain, engine, render_js, render_delay_ms, use_proxy, preset, 1,
                         last_status_code)}
     ELSE (rows \ conflict) \cup
          {Row(domain, engine, render_js, render_delay_ms, use_proxy, preset,
               row.hit_count + 1, last_status_code) : row \in conflict}

\* An UPDATE that touches updated_at only.
incrementHitCountTouchOnly(rows, domain) == rows

\* UPDATE domain_profiles SET hit_count = hit_count + 1 WHERE domain = ?
incrementHitCount(rows, domain) ==
  {IF row.domain = domain THEN [row EXCEPT !.hit_count = @ + 1] ELSE row : row \in rows}

\* DELETE FROM domain_profiles WHERE domain = ?
deleteProfile(rows, domain) == {row \in rows : row.domain # domain}

(***************************************************************************)
(* Engine calls.  A call records what the handler hands to attemptFetch or *)
(* attemptUnblock and which crawler that function runs.  A renderDelayMs   *)
(* of -1 is an option that was not passed (undefined).                     *)
(***************************************************************************)
Call(f, e, c, p, delay, rt, ep) ==
  [fn |-> f, engineType |-> e, crawler |-> c, proxy |-> p, renderDelayMs |-> delay,
   responseType |-> rt, endpoint |-> ep]

attemptFetch(engineType, options, cfg) ==
  IF engineType = "stealth"
  THEN Call("attemptFetch", engineType, "StealthCrawler", options.proxy,
            IF options.renderDelayMs = -1 THEN 2000 ELSE options.renderDelayMs,
            options.responseType, "")
  ELSE IF engineType = "browser"
  THEN Call("attemptFetch", engineType, "BrowserCrawler", options.proxy,
            options.renderDelayMs, options.responseType, cfg.browserlessUrl)
  ELSE Call("attemptFetch", engineType, "FastCrawler", options.proxy,
            options.renderDelayMs, options.responseType, "")

\* the unblock REST call takes the url only; it reads the endpoint from the config
attemptUnblock(cfg) ==
  Call("attemptUnblock", "unblock", "unblock", "", -1, "text", cfg.browserlessUrl)

Options(p, delay, rt) == [proxy |-> p, renderDelayMs |-> delay, responseType |-> rt]

(***************************************************************************)
(* What the engines answer.  An outcome is a FetchResult or a thrown       *)
(* error.  The sites behind the URLs of the model:                         *)
(*   api.example.com  a single-page app: an empty shell over HTTP, 7 KB    *)
(*                    once rendered; the remote browser may be down        *)
(*   blocked.test     403 with a 600-byte page over HTTP, a 3 KB           *)
(*                    <body><noscript> shell in the remote browser, 15 KB  *)
(*                    in the local stealth browser                         *)
(*   example.com      any mix of errors, short shells, articles and        *)
(*                    rendered pages                                       *)
(***************************************************************************)
Result(status, body, label) ==
  [kind |-> "result", statusCode |-> status, content |-> body, engineUsed |-> label]

Thrown == [kind |-> "throw", statusCode |-> 0, content |-> NoBody, engineUsed |-> ""]
NoOutcome == [kind |-> "none", statusCode |-> 0, content |-> NoBody, engineUsed |-> ""]

\* the engineUsed labels a crawler can put on its result
EngineLabels(call) ==
  CASE call.crawler = "FastCrawler" -> {"crawlee:http"}
    [] call.crawler = "BrowserCrawler" ->
         IF call.endpoint # "" THEN {"crawlee:browserless", "crawlee:local-puppeteer"}
         ELSE {"crawlee:local-puppeteer"}
    [] call.crawler = "StealthCrawler" -> {"patchright:stealth"}
    [] OTHER -> {"browserless:unblock"}

SiteAnswers(domain, call) ==
  CASE domain = <<"api", "example", "com">> ->
         IF call.crawler = "FastCrawler" THEN {<<200, EmptyShell120>>} ELSE {<<200, Rendered7K>>}
    [] domain = <<"blocked", "test">> ->
         IF call.crawler = "FastCrawler" THEN {<<403, Challenge600>>}
         ELSE IF call.crawler = "BrowserCrawler" THEN {<<200, Shell3K>>}
         ELSE {<<200, Rendered15K>>}
    [] OTHER -> IF call.crawler = "FastCrawler" THEN {<<200, Shell1500>>, <<200, Article1200>>}
                ELSE {<<200, Shell1500>>, <<200, Rendered7K>>}

SiteThrows(domain, call) ==
  CASE domain = <<"api", "example", "com">> -> call.crawler = "BrowserCrawler"
    [] domain = <<"blocked", "test">> -> FALSE
    [] OTHER -> TRUE

\* attemptUnblock throws at once when no endpoint is configured; its result
\* always carries status 200
Outcomes(domain, call) ==
  IF call.fn = "attemptUnblock"
  THEN IF call.endpoint = "" THEN {Thrown}
       ELSE {Result(200, a[2], l) : a \in SiteAnswers(domain, call), l \in EngineLabels(call)}
            \cup {Thrown}
  ELSE {Result(a[1], a[2], l) : a \in SiteAnswers(domain, call), l \in EngineLabels(call)}
       \cup (IF SiteThrows(domain, call) THEN {Thrown} ELSE {})

(***************************************************************************)
(* State.                                                                  *)
(***************************************************************************)
VARIABLES
  globalConfig,   \* the configuration record
  profiles,       \* the rows of domain_profiles
  req,            \* per request: where handleFetchRequest stands
  operatorOps,    \* operator actions done so far
  adminStatus,    \* HTTP status of the last admin profile operation (0: none yet)
  poolConfig,     \* BrowserPool.config is set
  roundRobinIndex,\* BrowserPool.roundRobinIndex
  recycleCount,   \* BrowserPool.recycleCount
  slots,          \* BrowserPool.slots
  connections,    \* the connections puppeteer.connect has returned, by handle
  fetches,        \* per caller: where its fetchInTab call stands
  dispatched,     \* per slot: the fetchInTab calls _pickSlot has given it so far
  connectCalls,   \* the calls of BrowserPool.connect so far
  probe,          \* the last application of a pure function: its name, input, output
  adv             \* where the advanced fetch (AdvancedCrawler.fetch) stands

serverVars == <<globalConfig, profiles, req, operatorOps, adminStatus>>
poolVars ==
  <<poolConfig, roundRobinIndex, recycleCount, slots, connections, fetches, dispatched,
    connectCalls>>
vars == <<serverVars, poolVars, probe, adv>>

NoResponse ==
  [http |-> 0, success |-> FALSE, statusCode |-> 0, content |-> NoBody, engineUsed |-> "",
   error |-> ""]

\* res.json({success: true, statusCode, content, ..., engineUsed}); format "html"
\* leaves the content as the engine returned it
SuccessResponse(result) ==
  [http |-> 200, success |-> TRUE, statusCode |-> result.statusCode,
   content |-> result.content, engineUsed |-> result.engineUsed, error |-> ""]

\* A catch block that answers with HTTP status 500.
FailureResponse500(message) ==
  [http |-> 500, success |-> FALSE, statusCode |-> 0, content |-> NoBody, engineUsed |-> "",
   error |-> message]

\* res.json({success: false, error}) of the catch block: no res.status, so 200
FailureResponse(message) ==
  [http |-> 200, success |-> FALSE, statusCode |-> 0, content |-> NoBody, engineUsed |-> "",
   error |-> message]

\* res.status(400).json({error: "URL is required"})
BadRequestResponse ==
  [http |-> 400, success |-> FALSE, statusCode |-> 0, content |-> NoBody, engineUsed |-> "",
   error |-> "URL is required"]

IdleRequest ==
  [pc |-> "idle", path |-> "", engine |-> "", cancelled |-> FALSE,
   domain |-> << >>, responseType |-> "text",
   cachedProfile |-> NoProfile, chain |-> << >>, calls |-> << >>, last |-> NoOutcome,
   winningStep |-> NoStep, response |-> NoResponse]

(***************************************************************************)
(* The browser pool (browserPool.ts).  A connection handle is the index of *)
(* the connection in connections; 0 is null.  A page is identified by the  *)
(* handle of the connection it was opened on.                              *)
(***************************************************************************)
POOL_SIZE == 4

\* the slots share nothing but the round-robin index; where concurrent calls
\* are to meet on one slot, the model constructs the pool with fewer slots
\* than POOL_SIZE
PoolSlots == 1
MAX_TABS_BEFORE_RECYCLE == 200

\* fetchInTab calls the model lets the callers make in all
MaxFetches == 4

\* calls of connect the model lets the service make
MaxConnects == 1

Callers == {"f1", "f2"}
\* the ids of this.slots
SlotIds == DOMAIN slots

\* this.slots.length
Size == Cardinality(DOMAIN slots)

\* the _ensureSlotConnected call that connect makes for slot s
Warmer(s) == <<"k0", "k1", "k2", "k3">>[s + 1]
Warmers == {Warmer(s) : s \in 0..(POOL_SIZE - 1)}

\* the calls that can stand in _ensureSlotConnected
Frames == Callers \cup Warmers

\* a slot as the constructor pushes it
EmptySlot ==
  [browser |-> 0, keepalivePage |-> 0, connecting |-> FALSE, activeTabCount |-> 0,
   tabsUsed |-> 0, stale |-> FALSE]

\* a slot after _connectSlot has completed and tabs tabs have been opened and
\* closed on its connection h
ConnectedSlot(h, tabs) ==
  [browser |-> h, keepalivePage |-> h, connecting |-> FALSE, activeTabCount |-> 0,
   tabsUsed |-> tabs, stale |-> FALSE]

\* a connection: the slot it was made for, whether it is up (isConnected()),
\* and whether the 'disconnected' listener of _connectSlot is registered on it
Connection(s, up, on) == [slot |-> s, connected |-> up, listening |-> on]

\* the frame of one fetchInTab call (or of one _ensureSlotConnected call of
\* connect, kind "connect"): the await it stands at (pc), its slot, the
\* connection its pending operation runs on (h), allowRetry, whether the
\* caller asked for a render delay, how the connection attempt it waits for
\* has settled, what the call returned, and the connection it found stale and
\* idle when it was dispatched
IdleFetch ==
  [kind |-> "fetch", pc |-> "idle", slot |-> 0, h |-> 0, allowRetry |-> TRUE,
   renderDelay |-> FALSE,
   settled |-> "pending", result |-> "none", recycling |-> 0]

ServerInit ==
  /\ globalConfig = defaultConfig
  /\ profiles = {}
  /\ req = [r \in Requests |-> IdleRequest]
  /\ operatorOps = 0
  /\ adminStatus = 0

\* new BrowserPool()
PoolConstructed ==
  /\ poolConfig = FALSE
  /\ roundRobinIndex = 0
  /\ recycleCount = 0
  /\ slots = [i \in 0..(PoolSlots - 1) |-> EmptySlot]
  /\ connections = << >>
  /\ fetches = [c \in Frames |-> IdleFetch]
  /\ dispatched = [i \in 0..(PoolSlots - 1) |-> 0]
  /\ connectCalls = 0

\* no function applied yet
NoProbe == [fn |-> "none", arg |-> << >>, out |-> << >>]

\* what POST /api/fetch/advanced has answered: the HTTP status, the keys of the
\* JSON body (a key whose value is undefined is not written), and the two lists
AdvancedResponse(http, success, keys, apiCalls, resources) ==
  [http |-> http, success |-> success, keys |-> keys, apiCalls |-> apiCalls,
   resources |-> resources]

NoAdvancedResponse == AdvancedResponse(0, FALSE, {}, 0, << >>)

\* the body of a request: apiPatterns is absent, an empty array, or patterns
AdvancedFetchRequest(url, apiPatterns, headers, jsAction, imagesToDownload, uploadConfig) ==
  [url |-> url, apiPatterns |-> apiPatterns, headers |-> headers, jsAction |-> jsAction,
   imagesToDownload |-> imagesToDownload, uploadConfig |-> uploadConfig]

NoAdvancedRequest == AdvancedFetchRequest(FALSE, "absent", FALSE, FALSE, << >>, FALSE)

\* no advanced fetch under way.  log: the steps of the current run of hooks and
\* handler, in the order they were started; captured: apiCapture.captured.length;
\* i: the index of imgUrl in imagesToDownload; tabs: the download tabs open
IdleAdvanced ==
  [pc |-> "idle", request |-> NoAdvancedRequest, retries |-> 0, log |-> << >>,
   listening |-> FALSE, captured |-> 0, content |-> FALSE, i |-> 0, pageRef |-> FALSE,
   tabs |-> 0, resources |-> << >>, result |-> FALSE, error |-> FALSE,
   response |-> NoAdvancedResponse]

Init ==
  /\ ServerInit
  /\ PoolConstructed
  /\ probe = NoProbe
  /\ adv = IdleAdvanced

(***************************************************************************)
(* POST /api/fetch: handleFetchRequest from its entry to its first await.  *)
(***************************************************************************)
RequestEngines == {"auto", "fast", "browser", "stealth"}
ResponseTypes == {"text", "base64"}
RequestProxies == {""}
RequestDelays == {0}

\* the call of one escalation step
StepCall(step, responseType, cfg) ==
  IF step.engine = "unblock" THEN attemptUnblock(cfg)
  ELSE attemptFetch(step.engine,
                    Options(IF step.useProxy THEN cfg.proxyUrl ELSE "",
                            step.renderDelayMs, responseType), cfg)

\* A cached call that goes through the configured proxy whatever the profile's
\* use_proxy says.
CachedCallDefaultProxy(cachedProfile, responseType, cfg) ==
  IF cachedProfile.engine = "unblock" THEN attemptUnblock(cfg)
  ELSE attemptFetch(cachedProfile.engine,
                    Options(cfg.proxyUrl, cachedProfile.render_delay_ms, responseType), cfg)

\* the call made for a cached profile
CachedCall(cachedProfile, responseType, cfg) ==
  IF cachedProfile.engine = "unblock" THEN attemptUnblock(cfg)
  ELSE attemptFetch(cachedProfile.engine,
                    Options(IF cachedProfile.use_proxy THEN cfg.proxyUrl ELSE "",
                            cachedProfile.render_delay_ms, responseType), cfg)

\* which branch of the handler serves the request
RoutePath(engine, responseType, cachedProfile) ==
  IF engine # "auto" THEN "explicit"
  ELSE IF cachedProfile # NoProfile THEN "cached"
  ELSE IF responseType = "base64" THEN "base64"
  ELSE "escalate"

HandleFetchRequest(r, url, engine, responseType, proxy, renderDelayMs) ==
  /\ req[r].pc = "idle"
  /\ IF url = NoUrl
     THEN /\ req' = [req EXCEPT ![r] = [@ EXCEPT !.pc = "done", !.response = BadRequestResponse]]
          /\ UNCHANGED profiles
     ELSE LET targetProxy == IF proxy # "" THEN proxy ELSE globalConfig.proxyUrl
              domain == extractDomain(url)
              cachedProfile == IF engine = "auto" THEN getProfile(profiles, domain)
                               ELSE NoProfile
              path == RoutePath(engine, responseType, cachedProfile)
              chain == IF path = "escalate" THEN getAvailableEscalationChain(globalConfig)
                       ELSE << >>
              call ==
                CASE path = "explicit" ->
                       attemptFetch(engine, Options(targetProxy, renderDelayMs, responseType),
                                    globalConfig)
                  [] path = "cached" -> CachedCall(cachedProfile, responseType, globalConfig)
                  [] path = "base64" ->
                       attemptFetch("fast", Options(targetProxy, -1, responseType), globalConfig)
                  [] OTHER -> StepCall(chain[1], responseType, globalConfig)
          IN /\ req' = [req EXCEPT ![r] =
                          [pc |-> "await", path |-> path, engine |-> engine,
                           cancelled |-> FALSE, domain |-> domain,
                           responseType |-> responseType, cachedProfile |-> cachedProfile,
                           chain |-> chain, calls |-> <<call>>, last |-> NoOutcome,
                           winningStep |-> NoStep, response |-> NoResponse]]
             /\ profiles' = IF path = "cached" THEN incrementHitCount(profiles, domain)
                            ELSE profiles
  /\ UNCHANGED <<globalConfig, operatorOps, adminStatus, poolVars, probe, adv>>

\* the call a request is awaiting, and what it can settle with
PendingCall(r) == req[r].calls[Len(req[r].calls)]

PendingOutcomes(r) ==
  IF req[r].pc = "await" THEN Outcomes(req[r].domain, PendingCall(r)) ELSE {}

\* A handler that evicts the profile when the call made for it fails.
SingleCallSettlesEvicting(r, out) ==
  /\ req[r].pc = "await"
  /\ req[r].path \in {"explicit", "cached", "base64"}
  /\ out \in PendingOutcomes(r)
  /\ req' = [req EXCEPT ![r] =
               [@ EXCEPT !.pc = "done", !.last = out,
                         !.response = IF out.kind = "throw"
                                      THEN FailureResponse("engine error")
                                      ELSE SuccessResponse(out)]]
  /\ profiles' = IF out.kind = "throw" /\ req[r].path = "cached"
                 THEN deleteProfile(profiles, req[r].domain)
                 ELSE profiles
  /\ UNCHANGED <<globalConfig, operatorOps, adminStatus, poolVars, probe, adv>>

\* A handler that hands the result of the cached call to the quality judge and
\* drops the profile when it is refused.
SingleCallSettlesJudgingCached(r, out) ==
  /\ req[r].pc = "await"
  /\ req[r].path \in {"explicit", "cached", "base64"}
  /\ out \in PendingOutcomes(r)
  /\ LET refused == /\ req[r].path = "cached"
                    /\ out.kind = "result"
                    /\ ~isContentSufficient(out.content, out.statusCode)
     IN  /\ req' = [req EXCEPT ![r] =
                      [@ EXCEPT !.pc = "done", !.last = out,
                                !.response = IF out.kind = "throw" \/ refused
                                             THEN FailureResponse("engine error")
                                             ELSE SuccessResponse(out)]]
         /\ profiles' = IF refused THEN deleteProfile(profiles, req[r].domain) ELSE profiles
  /\ UNCHANGED <<globalConfig, operatorOps, adminStatus, poolVars, probe, adv>>

\* A handler that hands the result of every single call to the quality judge.
SingleCallSettlesJudged(r, out) ==
  /\ req[r].pc = "await"
  /\ req[r].path \in {"explicit", "cached", "base64"}
  /\ out \in PendingOutcomes(r)
  /\ req' = [req EXCEPT ![r] =
               [@ EXCEPT !.pc = "done", !.last = out,
                         !.response = IF out.kind = "throw"
                                      THEN FailureResponse("engine error")
                                      ELSE IF isContentSufficient(out.content, out.statusCode)
                                      THEN SuccessResponse(out)
                                      ELSE FailureResponse("insufficient content")]]
  /\ UNCHANGED <<globalConfig, profiles, operatorOps, adminStatus, poolVars, probe, adv>>

(***************************************************************************)
(* The awaited call of a request on a single-call path (explicit engine,   *)
(* cached profile, base64) settles: the result is sent, an error goes to   *)
(* the catch block.                                                        *)
(***************************************************************************)
SingleCallSettles(r, out) ==
  /\ req[r].pc = "await"
  /\ req[r].path \in {"explicit", "cached", "base64"}
  /\ out \in PendingOutcomes(r)
  /\ req' = [req EXCEPT ![r] =
               [@ EXCEPT !.pc = "done", !.last = out,
                         !.response = IF out.kind = "throw"
                                      THEN FailureResponse("engine error")
                                      ELSE SuccessResponse(out)]]
  /\ UNCHANGED <<globalConfig, profiles, operatorOps, adminStatus, poolVars, probe, adv>>

(***************************************************************************)
(* The awaited call of an escalation step settles.                         *)
(***************************************************************************)
\* A default test that takes the direct fast step for the default.
isDefaultDirect(winningStep) == winningStep.engine = "fast" /\ winningStep.useProxy = FALSE

\* A default test that takes every fast step for the default.
isDefaultAnyFast(winningStep) == winningStep.engine = "fast"

\* isDefault of the handler
isDefault(winningStep) == winningStep.engine = "fast" /\ winningStep.useProxy = TRUE

profileInput(winningStep, result) ==
  [engine |-> winningStep.engine, renderJs |-> winningStep.renderJs,
   renderDelayMs |-> winningStep.renderDelayMs, useProxy |-> winningStep.useProxy,
   preset |-> IF winningStep.engine # "fast" THEN "chrome" ELSE "null",
   lastStatusCode |-> result.statusCode]

\* A loop without break: a sufficient result is kept, but the remaining steps
\* are still called and the last sufficient result is the one sent.
EscalationStepWinsNoBreak(r, out) ==
  /\ req[r].pc = "await" /\ req[r].path = "escalate"
  /\ out \in PendingOutcomes(r)
  /\ out.kind = "result"
  /\ isContentSufficient(out.content, out.statusCode)
  /\ LET step == req[r].chain[Len(req[r].calls)]
         next == Len(req[r].calls) + 1
     IN IF next <= Len(req[r].chain)
        THEN /\ req' = [req EXCEPT ![r] =
                          [@ EXCEPT !.last = out, !.winningStep = step,
                                    !.calls = Append(@, StepCall(req[r].chain[next],
                                                                 req[r].responseType,
                                                                 globalConfig))]]
             /\ UNCHANGED profiles
        ELSE /\ req' = [req EXCEPT ![r] =
                          [@ EXCEPT !.pc = "done", !.last = out, !.winningStep = step,
                                    !.response = SuccessResponse(out)]]
             /\ profiles' = IF ~isDefault(step)
                            THEN upsertProfile(profiles, req[r].domain,
                                               profileInput(step, out))
                            ELSE profiles
  /\ UNCHANGED <<globalConfig, operatorOps, adminStatus, poolVars, probe, adv>>

\* A winner that writes its config only when the domain has no profile yet.
EscalationStepWinsFirstWriterOnly(r, out) ==
  /\ req[r].pc = "await" /\ req[r].path = "escalate"
  /\ out \in PendingOutcomes(r)
  /\ out.kind = "result"
  /\ isContentSufficient(out.content, out.statusCode)
  /\ LET step == req[r].chain[Len(req[r].calls)]
     IN /\ req' = [req EXCEPT ![r] =
                     [@ EXCEPT !.pc = "done", !.last = out, !.winningStep = step,
                               !.response = SuccessResponse(out)]]
        /\ profiles' = IF ~isDefault(step) /\ getProfile(profiles, req[r].domain) = NoProfile
                       THEN upsertProfile(profiles, req[r].domain, profileInput(step, out))
                       ELSE profiles
  /\ UNCHANGED <<globalConfig, operatorOps, adminStatus, poolVars, probe, adv>>

\* the step's result passes isContentSufficient: the loop breaks, the winning
\* config is cached unless it is the default, the result is sent
EscalationStepWins(r, out) ==
  /\ req[r].pc = "await" /\ req[r].path = "escalate"
  /\ out \in PendingOutcomes(r)
  /\ out.kind = "result"
  /\ isContentSufficient(out.content, out.statusCode)
  /\ LET step == req[r].chain[Len(req[r].calls)]
     IN /\ req' = [req EXCEPT ![r] =
                     [@ EXCEPT !.pc = "done", !.last = out, !.winningStep = step,
                               !.response = SuccessResponse(out)]]
        /\ profiles' = IF ~isDefault(step)
                       THEN upsertProfile(profiles, req[r].domain, profileInput(step, out))
                       ELSE profiles
  /\ UNCHANGED <<globalConfig, operatorOps, adminStatus, poolVars, probe, adv>>

\* A loop whose try block has no catch: an error of a step goes straight to the
\* handler's catch block.
EscalationStepFailsPropagating(r, out) ==
  /\ req[r].pc = "await" /\ req[r].path = "escalate"
  /\ out \in PendingOutcomes(r)
  /\ out.kind = "throw" \/ ~isContentSufficient(out.content, out.statusCode)
  /\ LET next == Len(req[r].calls) + 1
     IN IF out.kind # "throw" /\ next <= Len(req[r].chain)
        THEN req' = [req EXCEPT ![r] =
                       [@ EXCEPT !.last = out,
                                 !.calls = Append(@, StepCall(req[r].chain[next],
                                                              req[r].responseType,
                                                              globalConfig))]]
        ELSE req' = [req EXCEPT ![r] =
                       [@ EXCEPT !.pc = "done", !.last = out,
                                 !.response = FailureResponse("engine error")]]
  /\ UNCHANGED <<globalConfig, profiles, operatorOps, adminStatus, poolVars, probe, adv>>

\* the step threw or its content is insufficient: the loop goes on with the next
\* step, and past the last step the handler throws into its catch block
EscalationStepFails(r, out) ==
  /\ req[r].pc = "await" /\ req[r].path = "escalate"
  /\ out \in PendingOutcomes(r)
  /\ out.kind = "throw" \/ ~isContentSufficient(out.content, out.statusCode)
  /\ LET next == Len(req[r].calls) + 1
     IN IF next <= Len(req[r].chain)
        THEN req' = [req EXCEPT ![r] =
                       [@ EXCEPT !.last = out,
                                 !.calls = Append(@, StepCall(req[r].chain[next],
                                                              req[r].responseType,
                                                              globalConfig))]]
        ELSE req' = [req EXCEPT ![r] =
                       [@ EXCEPT !.pc = "done", !.last = out,
                                 !.response =
                                   FailureResponse("All auto-retry escalation steps failed")]]
  /\ UNCHANGED <<globalConfig, profiles, operatorOps, adminStatus, poolVars, probe, adv>>

(***************************************************************************)
(* The caller of an escalating request gives up while the handler awaits   *)
(* an engine call: the socket closes.  handleFetchRequest registers no        *)
(* listener for it and passes no abort signal to the engines, so nothing   *)
(* of the handler's state changes; the model records that the caller is    *)
(* gone.                                                                   *)
(***************************************************************************)
ClientCancels(r) ==
  /\ req[r].pc = "await"
  /\ req[r].path = "escalate"
  /\ ~req[r].cancelled
  /\ req' = [req EXCEPT ![r] = [@ EXCEPT !.cancelled = TRUE]]
  /\ UNCHANGED <<globalConfig, profiles, operatorOps, adminStatus, poolVars, probe, adv>>

(***************************************************************************)
(* Admin routes over the profile table (both listening ports run the same  *)
(* statements) and POST /api/config.                                       *)
(***************************************************************************)
\* request bodies of POST /api/domain-profiles; a field may be missing
AdminBodies ==
  {[domain |-> d, engine |-> e, renderDelayMs |-> 1000] :
     d \in {<<"WWW", "Example", "com">>, <<"example", "com">>, <<"blocked", "test">>},
     e \in {"unblock", "auto"}}
  \cup {[domain |-> <<"example", "com">>], [engine |-> "unblock"]}

\* POST /api/domain-profiles
PostDomainProfile(body) ==
  /\ operatorOps < MaxOperatorOps
  /\ operatorOps' = operatorOps + 1
  /\ LET domain == Opt(body, "domain", << >>)
         engine == Opt(body, "engine", "")
     IN IF domain = << >> \/ engine = ""
        THEN /\ adminStatus' = 400
             /\ UNCHANGED profiles
        ELSE /\ profiles' = upsertProfile(profiles, domain,
                                          [engine |-> engine,
                                           renderJs |-> Opt(body, "renderJs", FALSE),
                                           renderDelayMs |-> Opt(body, "renderDelayMs", 0),
                                           preset |-> Opt(body, "preset", "null")])
             /\ adminStatus' = 200
  /\ UNCHANGED <<globalConfig, req, poolVars, probe, adv>>

\* DELETE /api/domain-profiles/:domain
DeleteDomainProfile(domain) ==
  /\ operatorOps < MaxOperatorOps
  /\ operatorOps' = operatorOps + 1
  /\ profiles' = deleteProfile(profiles, domain)
  /\ adminStatus' = IF profiles' # profiles THEN 200 ELSE 404
  /\ UNCHANGED <<globalConfig, req, poolVars, probe, adv>>

\* POST /api/config {proxyUrl, browserlessUrl}
PostConfig(cfg) ==
  /\ operatorOps < MaxOperatorOps
  /\ operatorOps' = operatorOps + 1
  /\ globalConfig' = cfg
  /\ UNCHANGED <<profiles, req, adminStatus, poolVars, probe, adv>>

Next ==
  \/ \E r \in Requests, url \in Urls \cup {NoUrl}, engine \in RequestEngines,
        responseType \in ResponseTypes, proxy \in RequestProxies,
        renderDelayMs \in RequestDelays :
       HandleFetchRequest(r, url, engine, responseType, proxy, renderDelayMs)
  \/ \E r \in Requests :
       \E out \in PendingOutcomes(r) :
         SingleCallSettles(r, out)
  \/ \E r \in Requests :
       \E out \in PendingOutcomes(r) :
         EscalationStepWins(r, out)
  \/ \E r \in Requests :
       \E out \in PendingOutcomes(r) :
         EscalationStepFails(r, out)
  \/ \E body \in AdminBodies : PostDomainProfile(body)
  \/ \E domain \in Hosts : DeleteDomainProfile(domain)
  \/ \E cfg \in Configs : PostConfig(cfg)

Spec == Init /\ [][Next]_vars

\* The same program with the callers' cancellations recorded: a cancellation
\* changes nothing the handlers read.
NextWithCancellation ==
  \/ Next
  \/ \E r \in Requests : ClientCancels(r)

SpecWithCancellation == Init /\ [][NextWithCancellation]_vars


(***************************************************************************)
(* The browser pool as a state machine.  Node runs one continuation at a   *)
(* time: a step below is the stretch of code between two awaits that wait  *)
(* for the remote browser or a timer; an await of a promise that is already *)
(* settled does not end the stretch.  P is the pool's mutable state.       *)
(***************************************************************************)
Pool ==
  [config |-> poolConfig, slots |-> slots, connections |-> connections,
   fetches |-> fetches, recycleCount |-> recycleCount]

Commit(Q) ==
  /\ poolConfig' = Q.config
  /\ slots' = Q.slots
  /\ connections' = Q.connections
  /\ fetches' = Q.fetches
  /\ recycleCount' = Q.recycleCount

\* browser && browser.isConnected()
browserIsConnected(P, h) == h # 0 /\ P.connections[h].connected

\* connection h closes: the 'disconnected' listener, if registered, clears
\* the slot it was registered for
disconnected(P, h) ==
  LET conn == P.connections[h]
      Q == [P EXCEPT !.connections[h] = Connection(conn.slot, FALSE, FALSE)]
  IN  IF conn.connected /\ conn.listening
        THEN [Q EXCEPT !.slots[conn.slot].browser = 0,
                       !.slots[conn.slot].keepalivePage = 0,
                       !.slots[conn.slot].stale = FALSE]
        ELSE Q

\* the fetchInTab call of c settles
Finish(P, c, result) ==
  [P EXCEPT !.fetches[c] = [IdleFetch EXCEPT !.result = result]]

\* a _connectSlot without the sentinel test
_connectSlotUnguarded(P, c) ==
  [P EXCEPT !.slots[P.fetches[c].slot].connecting = TRUE, !.fetches[c].pc = "connect"]

\* _connectSlot up to its first await: wait for the attempt in progress, or
\* start one (puppeteer.connect is then pending)
_connectSlot(P, c) ==
  LET s == P.fetches[c].slot
  IN  IF P.slots[s].connecting
        THEN [P EXCEPT !.fetches[c].pc = "waitConnect", !.fetches[c].settled = "pending"]
        ELSE [P EXCEPT !.slots[s].connecting = TRUE, !.fetches[c].pc = "connect"]

\* _fetchInSlot once _ensureSlotConnected has returned slot.browser: count the
\* tab, mark the slot stale at the limit, call browser.newPage()
EnterTab(P, c) ==
  LET s == P.fetches[c].slot
      used == P.slots[s].tabsUsed + 1
  IN  [P EXCEPT !.slots[s].activeTabCount = @ + 1,
                !.slots[s].tabsUsed = used,
                !.slots[s].stale = (@ \/ used >= MAX_TABS_BEFORE_RECYCLE),
                !.fetches[c].pc = "newPage",
                !.fetches[c].h = P.slots[s].browser]

\* an _ensureSlotConnected that connects whatever the slot holds
ConnectCheckReconnecting(P, c) == _connectSlot(P, c)

\* _ensureSlotConnected returns slot.browser: to _fetchInSlot, or to connect
Ensured(P, c) ==
  IF P.fetches[c].kind = "connect" THEN Finish(P, c, "ok") ELSE EnterTab(P, c)

\* _ensureSlotConnected from its second test on
ConnectCheck(P, c) ==
  IF ~browserIsConnected(P, P.slots[P.fetches[c].slot].browser)
    THEN _connectSlot(P, c)
    ELSE Ensured(P, c)

\* _ensureSlotConnected after _disconnectSlot has returned
Recycled(P, c) == ConnectCheck([P EXCEPT !.recycleCount = @ + 1], c)

\* _disconnectSlot from its second test on: browser.disconnect() closes the
\* connection at the call
DisconnectBrowser(P, c) ==
  LET b == P.slots[P.fetches[c].slot].browser
  IN  IF b # 0
        THEN [disconnected(P, b) EXCEPT !.fetches[c].pc = "disconnect", !.fetches[c].h = b]
        ELSE Recycled(P, c)

_disconnectSlot(P, c) ==
  LET k == P.slots[P.fetches[c].slot].keepalivePage
  IN  IF k # 0
        THEN [P EXCEPT !.fetches[c].pc = "closeKeepalive", !.fetches[c].h = k]
        ELSE DisconnectBrowser(P, c)

\* an _ensureSlotConnected that finds the slot stale and idle and goes on
\* without the teardown
_ensureSlotConnectedKeeping(P, c) ==
  LET sl == P.slots[P.fetches[c].slot]
  IN  IF ~P.config
        THEN Finish(P, c, "error")
        ELSE IF sl.stale /\ sl.activeTabCount = 0 /\ sl.browser # 0
          THEN ConnectCheck([P EXCEPT !.fetches[c].recycling = sl.browser], c)
          ELSE ConnectCheck(P, c)

_ensureSlotConnected(P, c) ==
  LET sl == P.slots[P.fetches[c].slot]
  IN  IF ~P.config
        THEN Finish(P, c, "error")
        ELSE IF sl.stale /\ sl.activeTabCount = 0 /\ sl.browser # 0
          THEN _disconnectSlot([P EXCEPT !.fetches[c].recycling = sl.browser], c)
          ELSE ConnectCheck(P, c)

\* the finally block of _fetchInSlot, page telling whether newPage had returned
Finally(P, c, result, page) ==
  LET Q == [P EXCEPT !.slots[P.fetches[c].slot].activeTabCount = @ - 1]
  IN  IF page
        THEN [Q EXCEPT !.fetches[c].pc = "close", !.fetches[c].result = result]
        ELSE Finish(Q, c, result)

\* a catch block whose retry leaves without the decrement of the finally block
CatchKeepsCount(P, c, page) ==
  IF P.fetches[c].allowRetry
       /\ ~browserIsConnected(P, P.slots[P.fetches[c].slot].browser)
    THEN _ensureSlotConnected([P EXCEPT !.fetches[c].allowRetry = FALSE], c)
    ELSE Finally(P, c, "error", page)

\* the catch block of _fetchInSlot: the retry's call runs up to its first
\* await before the finally block of the failed attempt
Catch(P, c, page) ==
  LET f == P.fetches[c]
  IN  IF f.allowRetry /\ ~browserIsConnected(P, P.slots[f.slot].browser)
        THEN LET Q == _ensureSlotConnected(
                        [P EXCEPT !.fetches[c].allowRetry = FALSE], c)
             IN  [Q EXCEPT !.slots[f.slot].activeTabCount = @ - 1]
        ELSE Finally(P, c, "error", page)

\* the connection attempt of owner c ends: the finally of _connectSlot clears
\* the sentinel, the callers waiting on it are woken, the owner goes on
ConnectSettles(P, c, ok) ==
  LET s == P.fetches[c].slot
      Q == [P EXCEPT !.slots[s].connecting = FALSE,
                     !.fetches = [d \in Frames |->
                        IF d # c /\ @[d].pc = "waitConnect" /\ @[d].slot = s
                             /\ @[d].settled = "pending"
                          THEN [@[d] EXCEPT !.settled = IF ok THEN "resolved" ELSE "rejected"]
                          ELSE @[d]]]
  IN  IF ok THEN Ensured(Q, c) ELSE Finish(Q, c, "error")

\* the catch of doConnect
ConnectCaught(P, c) ==
  ConnectSettles([P EXCEPT !.slots[P.fetches[c].slot].browser = 0,
                           !.slots[P.fetches[c].slot].keepalivePage = 0], c, FALSE)

\* a doConnect that resets tabsUsed and leaves stale as it is
ConnectCompletedKeepingStale(P, c) ==
  LET s == P.fetches[c].slot
      Q == [P EXCEPT !.slots[s].tabsUsed = 0]
      b == P.slots[s].browser
  IN  IF b = 0
        THEN ConnectCaught(Q, c)
        ELSE ConnectSettles([Q EXCEPT !.connections[b].listening = TRUE], c, TRUE)

\* doConnect after the keepalive tab has loaded
ConnectCompleted(P, c) ==
  LET s == P.fetches[c].slot
      Q == [P EXCEPT !.slots[s].tabsUsed = 0, !.slots[s].stale = FALSE]
      b == P.slots[s].browser
  IN  IF b = 0
        THEN ConnectCaught(Q, c)
        ELSE ConnectSettles([Q EXCEPT !.connections[b].listening = TRUE], c, TRUE)

TabOps == {"newPage", "goto", "content"}
SetupOps == {"keepalive", "blank"}

\* c has a continuation in the microtask queue: its pending promise has settled
Ready(c) ==
  \/ fetches[c].pc = "disconnect"
  \/ /\ fetches[c].pc \in TabOps \cup SetupOps \cup {"close", "closeKeepalive"}
     /\ ~browserIsConnected(Pool, fetches[c].h)
  \/ fetches[c].pc = "waitConnect" /\ fetches[c].settled # "pending"

\* the microtask queue is empty: the event loop takes the next event
NoReady == \A c \in Frames : ~Ready(c)

RECURSIVE SumTo(_, _)
SumTo(f, n) == IF n < 0 THEN 0 ELSE f[n] + SumTo(f, n - 1)

\* a dispatch that passes over a slot whose browser is not connected
FetchInTabSkippingDown(c, renderDelay) ==
  LET k == roundRobinIndex % Size
      s == IF browserIsConnected(Pool, slots[k].browser) THEN k ELSE (k + 1) % Size
      frame == [IdleFetch EXCEPT !.slot = s, !.renderDelay = renderDelay]
  IN  /\ fetches[c].pc = "idle"
      /\ NoReady
      /\ SumTo(dispatched, Size - 1) < MaxFetches
      /\ roundRobinIndex' = roundRobinIndex + 1
      /\ dispatched' = [dispatched EXCEPT ![s] = @ + 1]
      /\ Commit(_ensureSlotConnected([Pool EXCEPT !.fetches[c] = frame], c))
      /\ UNCHANGED <<serverVars, probe, adv, connectCalls>>

FetchInTab(c, renderDelay) ==
  LET s == roundRobinIndex % Size
      frame == [IdleFetch EXCEPT !.slot = s, !.renderDelay = renderDelay]
  IN  /\ fetches[c].pc = "idle"
      /\ NoReady
      /\ SumTo(dispatched, Size - 1) < MaxFetches
      /\ roundRobinIndex' = roundRobinIndex + 1
      /\ dispatched' = [dispatched EXCEPT ![s] = @ + 1]
      /\ Commit(_ensureSlotConnected([Pool EXCEPT !.fetches[c] = frame], c))
      /\ UNCHANGED <<serverVars, probe, adv, connectCalls>>

ConnectEstablished(c) ==
  LET h == Len(connections) + 1
      s == fetches[c].slot
  IN  /\ fetches[c].pc = "connect"
      /\ NoReady
      /\ Commit([Pool EXCEPT !.connections = Append(@, Connection(s, TRUE, FALSE)),
                             !.slots[s].browser = h,
                             !.fetches[c].pc = "keepalive",
                             !.fetches[c].h = h])
      /\ UNCHANGED <<serverVars, probe, adv, roundRobinIndex, dispatched, connectCalls>>

ConnectFails(c) ==
  /\ fetches[c].pc = "connect"
  /\ NoReady
  /\ Commit(ConnectCaught(Pool, c))
  /\ UNCHANGED <<serverVars, probe, adv, roundRobinIndex, dispatched, connectCalls>>

KeepaliveOpened(c) ==
  /\ fetches[c].pc = "keepalive"
  /\ browserIsConnected(Pool, fetches[c].h)
  /\ NoReady
  /\ Commit([Pool EXCEPT !.slots[fetches[c].slot].keepalivePage = fetches[c].h,
                         !.fetches[c].pc = "blank"])
  /\ UNCHANGED <<serverVars, probe, adv, roundRobinIndex, dispatched, connectCalls>>

KeepaliveNavigated(c) ==
  /\ fetches[c].pc = "blank"
  /\ browserIsConnected(Pool, fetches[c].h)
  /\ NoReady
  /\ Commit(ConnectCompleted(Pool, c))
  /\ UNCHANGED <<serverVars, probe, adv, roundRobinIndex, dispatched, connectCalls>>

\* newPage or goto of the keepalive tab rejects: at once when the connection
\* is gone, as an event when it is up
SetupFails(c) ==
  /\ fetches[c].pc \in SetupOps
  /\ browserIsConnected(Pool, fetches[c].h) => NoReady
  /\ Commit(ConnectCaught(Pool, c))
  /\ UNCHANGED <<serverVars, probe, adv, roundRobinIndex, dispatched, connectCalls>>

WaiterResumes(c) ==
  /\ fetches[c].pc = "waitConnect"
  /\ fetches[c].settled # "pending"
  /\ Commit(IF fetches[c].settled = "resolved"
              THEN Ensured(Pool, c)
              ELSE Finish(Pool, c, "error"))
  /\ UNCHANGED <<serverVars, probe, adv, roundRobinIndex, dispatched, connectCalls>>

\* keepalivePage.close() settles; its outcome is swallowed
KeepaliveClosed(c) ==
  /\ fetches[c].pc = "closeKeepalive"
  /\ browserIsConnected(Pool, fetches[c].h) => NoReady
  /\ Commit(DisconnectBrowser([Pool EXCEPT !.slots[fetches[c].slot].keepalivePage = 0], c))
  /\ UNCHANGED <<serverVars, probe, adv, roundRobinIndex, dispatched, connectCalls>>

\* browser.disconnect() has settled
BrowserDisconnected(c) ==
  /\ fetches[c].pc = "disconnect"
  /\ Commit(Recycled([Pool EXCEPT !.slots[fetches[c].slot].browser = 0], c))
  /\ UNCHANGED <<serverVars, probe, adv, roundRobinIndex, dispatched, connectCalls>>

\* newPage, goto or content resolves (setExtraHTTPHeaders goes with goto)
TabOpSucceeds(c) ==
  LET f == fetches[c]
  IN  /\ f.pc \in TabOps
      /\ browserIsConnected(Pool, f.h)
      /\ NoReady
      /\ Commit(CASE f.pc = "newPage" -> [Pool EXCEPT !.fetches[c].pc = "goto"]
                  [] f.pc = "goto" ->
                       [Pool EXCEPT !.fetches[c].pc =
                          IF f.renderDelay THEN "sleep" ELSE "content"]
                  [] f.pc = "content" -> Finally(Pool, c, "ok", TRUE))
      /\ UNCHANGED <<serverVars, probe, adv, roundRobinIndex, dispatched, connectCalls>>

\* the render delay is over: page.content() is called
TimerFires(c) ==
  /\ fetches[c].pc = "sleep"
  /\ NoReady
  /\ Commit([Pool EXCEPT !.fetches[c].pc = "content"])
  /\ UNCHANGED <<serverVars, probe, adv, roundRobinIndex, dispatched, connectCalls>>

\* a tab operation rejects while its connection is up (navigation timeout...)
TabOpFails(c) ==
  /\ fetches[c].pc \in TabOps
  /\ browserIsConnected(Pool, fetches[c].h)
  /\ NoReady
  /\ Commit(Catch(Pool, c, fetches[c].pc # "newPage"))
  /\ UNCHANGED <<serverVars, probe, adv, roundRobinIndex, dispatched, connectCalls>>

\* a tab operation rejects because its connection is gone
TabOpRejected(c) ==
  /\ fetches[c].pc \in TabOps
  /\ ~browserIsConnected(Pool, fetches[c].h)
  /\ Commit(Catch(Pool, c, fetches[c].pc # "newPage"))
  /\ UNCHANGED <<serverVars, probe, adv, roundRobinIndex, dispatched, connectCalls>>

\* page.close() settles; its outcome is swallowed
TabClosed(c) ==
  /\ fetches[c].pc = "close"
  /\ browserIsConnected(Pool, fetches[c].h) => NoReady
  /\ Commit(Finish(Pool, c, fetches[c].result))
  /\ UNCHANGED <<serverVars, probe, adv, roundRobinIndex, dispatched, connectCalls>>

\* the remote browser or the network closes connection h
ConnectionLost(h) ==
  /\ browserIsConnected(Pool, h)
  /\ NoReady
  /\ Commit(disconnected(Pool, h))
  /\ UNCHANGED <<serverVars, probe, adv, roundRobinIndex, dispatched, connectCalls>>

\* the pool between calls: as constructed, configured with the prewarm of
\* startup failed, or configured with every slot connected and tabs fetches
\* served by each slot one after the other
PoolInit ==
  /\ ServerInit
  /\ probe = NoProbe
  /\ adv = IdleAdvanced
  /\ \/ PoolConstructed
     \/ /\ poolConfig = TRUE
        /\ roundRobinIndex = 0
        /\ recycleCount = 0
        /\ slots = [i \in 0..(PoolSlots - 1) |-> EmptySlot]
        /\ connections = << >>
        /\ fetches = [c \in Frames |-> IdleFetch]
        /\ dispatched = [i \in 0..(PoolSlots - 1) |-> 0]
        /\ connectCalls = 0
     \/ \E tabs \in {0, MAX_TABS_BEFORE_RECYCLE - 1} :
          /\ poolConfig = TRUE
          /\ roundRobinIndex = PoolSlots * tabs
          /\ recycleCount = 0
          /\ slots = [i \in 0..(PoolSlots - 1) |-> ConnectedSlot(i + 1, tabs)]
          /\ connections = [h \in 1..PoolSlots |-> Connection(h - 1, TRUE, TRUE)]
          /\ fetches = [c \in Frames |-> IdleFetch]
          /\ dispatched = [i \in 0..(PoolSlots - 1) |-> 0]
          /\ connectCalls = 0

PoolNext ==
  \/ \E c \in Callers, renderDelay \in BOOLEAN : FetchInTab(c, renderDelay)
  \/ \E c \in Frames : ConnectEstablished(c)
  \/ \E c \in Frames : ConnectFails(c)
  \/ \E c \in Frames : KeepaliveOpened(c)
  \/ \E c \in Frames : KeepaliveNavigated(c)
  \/ \E c \in Frames : SetupFails(c)
  \/ \E c \in Frames : WaiterResumes(c)
  \/ \E c \in Frames : KeepaliveClosed(c)
  \/ \E c \in Frames : BrowserDisconnected(c)
  \/ \E c \in Callers : TabOpSucceeds(c)
  \/ \E c \in Callers : TimerFires(c)
  \/ \E c \in Callers : TabOpFails(c)
  \/ \E c \in Callers : TabOpRejected(c)
  \/ \E c \in Callers : TabClosed(c)
  \/ \E h \in DOMAIN connections : ConnectionLost(h)

PoolSpec == PoolInit /\ [][PoolNext]_vars

\* the pool with all its POOL_SIZE slots, after connect has warmed them and
\* the first k calls of fetchInTab have been served
DispatchInit ==
  /\ ServerInit
  /\ probe = NoProbe
  /\ adv = IdleAdvanced
  /\ \E k \in 0..(POOL_SIZE - 1) :
       /\ poolConfig = TRUE
       /\ roundRobinIndex = k
       /\ recycleCount = 0
       /\ slots = [i \in 0..(POOL_SIZE - 1) |-> ConnectedSlot(i + 1, IF i < k THEN 1 ELSE 0)]
       /\ connections = [h \in 1..POOL_SIZE |-> Connection(h - 1, TRUE, TRUE)]
       /\ fetches = [c \in Frames |-> IdleFetch]
       /\ dispatched = [i \in 0..(POOL_SIZE - 1) |-> 0]
       /\ connectCalls = 0

\* the calls of one caller, one after the other, on the four slots
DispatchNext ==
  \/ \E renderDelay \in BOOLEAN : FetchInTab("f1", renderDelay)
  \/ ConnectEstablished("f1")
  \/ ConnectFails("f1")
  \/ KeepaliveOpened("f1")
  \/ KeepaliveNavigated("f1")
  \/ SetupFails("f1")
  \/ TabOpSucceeds("f1")
  \/ TimerFires("f1")
  \/ TabOpFails("f1")
  \/ TabOpRejected("f1")
  \/ TabClosed("f1")
  \/ \E h \in DOMAIN connections : ConnectionLost(h)

DispatchSpec == DispatchInit /\ [][DispatchNext]_vars

\* slots.map(slot => this._ensureSlotConnected(slot)): each call runs up to its
\* first await, in slot order
RECURSIVE EnsureAll(_, _)
EnsureAll(P, s) ==
  IF s \notin DOMAIN P.slots
    THEN P
    ELSE EnsureAll(
           _ensureSlotConnected(
             [P EXCEPT !.fetches[Warmer(s)] =
                         [IdleFetch EXCEPT !.kind = "connect", !.slot = s]],
             Warmer(s)),
           s + 1)

\* BrowserPool.connect(config)
Connect ==
  /\ connectCalls < MaxConnects
  /\ \A k \in Warmers : fetches[k].pc = "idle"
  /\ NoReady
  /\ connectCalls' = connectCalls + 1
  /\ Commit(EnsureAll([Pool EXCEPT !.config = TRUE], 0))
  /\ UNCHANGED <<serverVars, probe, adv, roundRobinIndex, dispatched>>

\* the pool with calls of connect next to the fetches of one caller
PoolNextWithConnect ==
  \/ Connect
  \/ \E renderDelay \in BOOLEAN : FetchInTab("f1", renderDelay)
  \/ \E c \in Frames : ConnectEstablished(c)
  \/ \E c \in Frames : ConnectFails(c)
  \/ \E c \in Frames : KeepaliveOpened(c)
  \/ \E c \in Frames : KeepaliveNavigated(c)
  \/ \E c \in Frames : SetupFails(c)
  \/ \E c \in Frames : WaiterResumes(c)
  \/ \E c \in Frames : KeepaliveClosed(c)
  \/ \E c \in Frames : BrowserDisconnected(c)
  \/ \E c \in Callers : TabOpSucceeds(c)
  \/ \E c \in Callers : TimerFires(c)
  \/ \E c \in Callers : TabOpFails(c)
  \/ \E c \in Callers : TabOpRejected(c)
  \/ \E c \in Callers : TabClosed(c)
  \/ \E h \in DOMAIN connections : ConnectionLost(h)

PoolSpecWithConnect == PoolInit /\ [][PoolNextWithConnect]_vars

(***************************************************************************)
(* POST /api/fetch/advanced: handleAdvancedFetchRequest, AdvancedCrawler   *)
(* .fetch, and the hooks and the handler it gives to the crawler.          *)
(***************************************************************************)
\* imagesToDownload holds at most this many URLs
MaxImages == 2
\* responses the listener captures in one request, at most
MaxCaptured == 2
\* the crawler runs hooks and handler again after a failed run, this often
MaxRetries == 1

Images == {"a.png", "b.png"}
ImageLists == UNION {[1..n -> Images] : n \in 0..MaxImages}

AdvancedRequests ==
  {AdvancedFetchRequest(url, apiPatterns, headers, jsAction, images, uploadConfig) :
     url \in BOOLEAN, apiPatterns \in {"absent", "empty", "some"}, headers \in BOOLEAN,
     jsAction \in BOOLEAN, images \in ImageLists, uploadConfig \in BOOLEAN}

Advance(a) ==
  /\ adv' = a
  /\ UNCHANGED <<serverVars, poolVars, probe>>

Logged(a, step) == [a EXCEPT !.log = Append(@, step)]

\* result = {...}: the last statement of the handler
Assemble(a) == [Logged(a, "result") EXCEPT !.pc = "run", !.result = TRUE]

\* for (const imgUrl of request.imagesToDownload): the body starts with newPage
DownloadLoop(a) ==
  IF a.i < Len(a.request.imagesToDownload)
    THEN [Logged(a, "download") EXCEPT !.pc = "newPage", !.i = @ + 1, !.pageRef = FALSE]
    ELSE Assemble([a EXCEPT !.pageRef = FALSE])

\* a finally block that leaves the tab to the browser
FinallyTabLeft(a) == DownloadLoop(a)

\* finally { if (pageRef) await pageRef.close().catch(() => {}) }
FinallyTab(a) == IF a.pageRef THEN [a EXCEPT !.pc = "closeTab"] ELSE DownloadLoop(a)

\* a push that drops the entry of a failed download
PushedSuccessOnly(a, status, uploadedUrl) ==
  IF status = "success"
    THEN [a EXCEPT !.resources =
            Append(@, [originalUrl |-> a.request.imagesToDownload[a.i], status |-> status,
                       uploadedUrl |-> uploadedUrl])]
    ELSE a

\* downloadedResources.push({originalUrl: imgUrl, status, ...})
Pushed(a, status, uploadedUrl) ==
  [a EXCEPT !.resources =
     Append(@, [originalUrl |-> a.request.imagesToDownload[a.i], status |-> status,
                uploadedUrl |-> uploadedUrl])]

\* a handler that downloads first and reads the DOM last
ContentFirstDownloads(a) ==
  IF Len(a.request.imagesToDownload) > 0
    THEN DownloadLoop([a EXCEPT !.i = 0])
    ELSE [Logged(a, "content") EXCEPT !.pc = "content"]

\* const content = await page.content()
ContentFirst(a) == [Logged(a, "content") EXCEPT !.pc = "content"]

\* the handler from its first statement: jsAction, if the request has one
requestHandler(a) ==
  IF a.request.jsAction
    THEN [Logged(a, "jsAction") EXCEPT !.pc = "evaluate"]
    ELSE ContentFirst(a)

\* the request body arrives
AdvancedFetchRequested(request) ==
  /\ adv.pc \in {"idle", "done"}
  /\ Advance(IF ~request.url
               THEN [IdleAdvanced EXCEPT !.pc = "done", !.request = request,
                       !.response = AdvancedResponse(400, FALSE, {"error"}, 0, << >>)]
               ELSE [IdleAdvanced EXCEPT !.pc = "hooks", !.request = request])

\* page.setCacheEnabled(false) has resolved: the hook registers the listener
\* and sets the headers, or is finished and the crawler navigates
CacheDisabled ==
  /\ adv.pc = "hooks"
  /\ LET a == IF adv.request.apiPatterns # "absent"
                 THEN [Logged(adv, "listener") EXCEPT !.listening = TRUE]
                 ELSE adv
     IN  Advance(IF a.request.headers
                   THEN [Logged(a, "headers") EXCEPT !.pc = "setHeaders"]
                   ELSE [Logged(a, "goto") EXCEPT !.pc = "goto"])

\* page.setExtraHTTPHeaders has resolved
HeadersSet ==
  /\ adv.pc = "setHeaders"
  /\ Advance([Logged(adv, "goto") EXCEPT !.pc = "goto"])

\* the navigation has an answer: the crawler calls the handler
Navigated ==
  /\ adv.pc = "goto"
  /\ Advance(requestHandler(adv))

\* the awaits of the download loop
DownloadOps == {"newPage", "tabCache", "imageGoto", "buffer", "upload", "closeTab"}

\* the main page receives a response: ApiCapture.handleResponse
ResponseReceived(matches) ==
  /\ adv.pc \in {"goto", "evaluate", "wait", "content"} \cup DownloadOps
  /\ adv.listening
  /\ adv.captured < MaxCaptured
  /\ adv.request.apiPatterns = "some" /\ matches
  /\ Advance([adv EXCEPT !.captured = @ + 1])

\* page.evaluate(jsAction) has resolved: the handler waits 2000 ms
JsEvaluated ==
  /\ adv.pc = "evaluate"
  /\ Advance([adv EXCEPT !.pc = "wait"])

\* page.evaluate(jsAction) has thrown: caught, the handler goes on
JsThrows ==
  /\ adv.pc = "evaluate"
  /\ Advance(ContentFirst(adv))

JsWaitOver ==
  /\ adv.pc = "wait"
  /\ Advance(ContentFirst(adv))

\* page.content() has resolved: the downloads, then the result
ContentRead ==
  /\ adv.pc = "content"
  /\ Advance(DownloadLoop([adv EXCEPT !.content = TRUE, !.i = 0]))

\* context.newPage() has resolved
DownloadTabOpened ==
  /\ adv.pc = "newPage"
  /\ Advance([adv EXCEPT !.pc = "tabCache", !.pageRef = TRUE, !.tabs = @ + 1])

\* pageRef.setCacheEnabled(false) has resolved
DownloadTabReady ==
  /\ adv.pc = "tabCache"
  /\ Advance([adv EXCEPT !.pc = "imageGoto"])

\* pageRef.goto(imgUrl) has resolved, with a response or with null
ImageAnswered(status) ==
  /\ adv.pc = "imageGoto"
  /\ Advance(IF status = 200
               THEN [adv EXCEPT !.pc = "buffer"]
               ELSE FinallyTab(Pushed(adv, "error", FALSE)))

\* newPage, setCacheEnabled, goto (its 30 s timeout included) or buffer throws
DownloadThrows ==
  /\ adv.pc \in {"newPage", "tabCache", "imageGoto", "buffer"}
  /\ Advance(FinallyTab(Pushed(adv, "error", FALSE)))

\* view.buffer() has resolved
BufferRead ==
  /\ adv.pc = "buffer"
  /\ Advance(IF adv.request.uploadConfig
               THEN [adv EXCEPT !.pc = "upload"]
               ELSE FinallyTab(Pushed(adv, "success", FALSE)))

\* an upload whose failure reaches the catch of the download loop
UploadAnsweredFailing(uploadedUrl) ==
  /\ adv.pc = "upload"
  /\ Advance(FinallyTab(Pushed(adv, IF uploadedUrl THEN "success" ELSE "error", uploadedUrl)))

\* uploadImage has resolved, with the URL or (every failure) with undefined
UploadAnswered(uploadedUrl) ==
  /\ adv.pc = "upload"
  /\ Advance(FinallyTab(Pushed(adv, "success", uploadedUrl)))

\* pageRef.close() has settled
DownloadTabClosed ==
  /\ adv.pc = "closeTab"
  /\ Advance(DownloadLoop([adv EXCEPT !.tabs = @ - 1]))

\* a hook, the navigation or page.content() throws: the crawler runs hooks and
\* handler again on a new page, or gives the request to failedRequestHandler
RunFails ==
  /\ adv.pc \in {"hooks", "setHeaders", "goto", "content"}
  /\ Advance(IF adv.retries < MaxRetries
               THEN [adv EXCEPT !.pc = "hooks", !.retries = @ + 1, !.log = << >>,
                                !.listening = FALSE]
               ELSE [adv EXCEPT !.pc = "run", !.error = TRUE, !.listening = FALSE])

\* crawler.run has resolved: fetch returns the result or throws, and
\* handleAdvancedFetchRequest answers
ResultKeys ==
  {"success", "statusCode", "content", "markdown", "headers", "url", "engineUsed"}

CrawlerRunResolved ==
  /\ adv.pc = "run"
  /\ Advance([adv EXCEPT
       !.pc = "done",
       !.listening = FALSE,
       !.response =
         IF adv.error \/ ~adv.result
           THEN AdvancedResponse(200, FALSE, {"success", "error"}, 0, << >>)
           ELSE AdvancedResponse(
                  200, TRUE,
                  ResultKeys \cup {"resources"}
                    \cup (IF adv.request.apiPatterns # "absent" THEN {"apiCalls"} ELSE {}),
                  adv.captured, adv.resources)])

AdvancedNext ==
  \/ \E request \in AdvancedRequests : AdvancedFetchRequested(request)
  \/ CacheDisabled
  \/ HeadersSet
  \/ Navigated
  \/ \E matches \in BOOLEAN : ResponseReceived(matches)
  \/ JsEvaluated
  \/ JsThrows
  \/ JsWaitOver
  \/ ContentRead
  \/ DownloadTabOpened
  \/ DownloadTabReady
  \/ \E status \in {0, 200, 404} : ImageAnswered(status)
  \/ DownloadThrows
  \/ BufferRead
  \/ \E uploadedUrl \in BOOLEAN : UploadAnswered(uploadedUrl)
  \/ DownloadTabClosed
  \/ RunFails
  \/ CrawlerRunResolved

AdvancedSpec == Init /\ [][AdvancedNext]_vars

(***************************************************************************)
(* The pure functions, applied to inputs drawn from bounded sets: the      *)
(* judge, the domain key, and the statements on domain_profiles.           *)
(***************************************************************************)
\* hit_count values the model lets a row reach
MaxHitCount == 3

\* content.length on both sides of every threshold of isContentSufficient
ProbeLengths == {0, 499, 500, 999, 1000, 1999, 2000, 5000, 5001, 7000}
\* numbers of <p>, <article>, <h1>-<h3>, <li>, <td> matches
ProbeTextTags == {0, 2, 3, 12}
ProbeBodies ==
  {Body(len, shell, tags, struct) :
     len \in ProbeLengths, shell \in BOOLEAN, tags \in ProbeTextTags, struct \in BOOLEAN}
ProbeStatusCodes == {200, 403, 404, 429, 503}

ProbeUrls ==
  Urls \cup
  { [scheme |-> "https", host |-> <<"www", "www", "example", "com">>, port |-> "", path |-> ""],
    [scheme |-> "http", host |-> <<"www">>, port |-> "", path |-> "/"],
    [scheme |-> "https", host |-> <<"example", "com">>, port |-> "", path |-> "/bar"],
    [scheme |-> "https", host |-> <<"www", "API", "example", "com">>, port |-> "8443",
     path |-> "/"] }

\* DomainProfileInput values
ProfileInputs ==
  { [engine |-> "fast"],
    [engine |-> "browser", renderJs |-> TRUE, renderDelayMs |-> 2000, useProxy |-> FALSE,
     lastStatusCode |-> 200],
    [engine |-> "stealth", renderJs |-> TRUE, renderDelayMs |-> 3000, preset |-> "chrome"] }

StoreDomains == {extractDomain(u) : u \in Urls}

ApplyIsContentSufficient(content, statusCode) ==
  /\ probe' = [fn |-> "isContentSufficient",
               arg |-> [content |-> content, statusCode |-> statusCode],
               out |-> isContentSufficient(content, statusCode)]
  /\ UNCHANGED <<serverVars, poolVars, adv>>

ApplyExtractDomain(url) ==
  /\ probe' = [fn |-> "extractDomain", arg |-> url, out |-> extractDomain(url)]
  /\ UNCHANGED <<serverVars, poolVars, adv>>

ApplyUpsertProfile(domain, input) ==
  /\ \A row \in profiles : row.domain = domain => row.hit_count < MaxHitCount
  /\ profiles' = upsertProfile(profiles, domain, input)
  /\ probe' = [fn |-> "upsertProfile", arg |-> [domain |-> domain, input |-> input],
               out |-> getProfile(profiles', domain)]
  /\ UNCHANGED <<globalConfig, req, operatorOps, adminStatus, poolVars, adv>>

ApplyDeleteProfile(domain) ==
  /\ profiles' = deleteProfile(profiles, domain)
  /\ probe' = [fn |-> "deleteProfile", arg |-> domain,
               out |-> \E row \in profiles : row.domain = domain]
  /\ UNCHANGED <<globalConfig, req, operatorOps, adminStatus, poolVars, adv>>

PureNext ==
  \/ \E content \in ProbeBodies, statusCode \in ProbeStatusCodes :
       ApplyIsContentSufficient(content, statusCode)
  \/ \E url \in ProbeUrls : ApplyExtractDomain(url)

PureSpec == Init /\ [][PureNext]_vars

\* the statements of the profile store, applied to a table that starts empty
StoreNext ==
  \/ \E domain \in StoreDomains, input \in ProfileInputs : ApplyUpsertProfile(domain, input)
  \/ \E domain \in StoreDomains : ApplyDeleteProfile(domain)

StoreSpec == Init /\ [][StoreNext]_vars

(***************************************************************************)
(* Vocabulary of the properties.                                           *)
(***************************************************************************)
\* the request took a step of its handler in this transition
Stepped(r) == req'[r] # req[r]

\* the awaited call of r settled in this transition and ended the request
Finished(r) == req[r].pc = "await" /\ req'[r].pc = "done"

\* call is the invocation the scheduler makes for an escalation step
CallOfStep(call, step) ==
  /\ call.engineType = step.engine
  /\ IF step.engine = "unblock"
     THEN call.fn = "attemptUnblock"
     ELSE /\ call.fn = "attemptFetch"
          /\ call.renderDelayMs = step.renderDelayMs
          /\ (call.proxy # "" => step.useProxy)
          /\ (~step.useProxy => call.proxy = "")

\* call is the invocation made for a cached profile under configuration cfg;
\* attemptUnblock takes the url only
CallOfProfile(call, profile, cfg) ==
  /\ call.engineType = profile.engine
  /\ IF profile.engine = "unblock"
     THEN call.fn = "attemptUnblock"
     ELSE /\ call.fn = "attemptFetch"
          /\ call.renderDelayMs = profile.render_delay_ms
          /\ call.proxy = (IF profile.use_proxy THEN cfg.proxyUrl ELSE "")

\* the configuration fields of the rows: everything but hit_count
ConfigFields(rows) == {[row EXCEPT !.hit_count = 0] : row \in rows}

Won(q) == q.pc = "done" /\ q.path = "escalate" /\ q.response.success

(***************************************************************************)
(* C1.  In auto mode without cached profile and with responseType text,    *)
(* the calls of a request are the calls of the ladder steps, one per step  *)
(* and in ladder order; a result that passes the quality judge ends the    *)
(* request at once with that result as the response, so no later step is   *)
(* invoked, and a successful response is always such a result.             *)
(***************************************************************************)
C1_LadderInOrderFirstSufficientWins ==
  \A r \in Requests :
    LET q == req[r] IN
    q.path = "escalate" =>
      /\ q.cachedProfile = NoProfile /\ q.responseType = "text"
      /\ Len(q.calls) >= 1 /\ Len(q.calls) <= Len(q.chain)
      /\ \A i \in 1..Len(q.calls) : CallOfStep(q.calls[i], q.chain[i])
      /\ (q.last.kind = "result" /\ isContentSufficient(q.last.content, q.last.statusCode))
           => /\ q.pc = "done"
              /\ q.response = SuccessResponse(q.last)
              /\ q.winningStep = q.chain[Len(q.calls)]
      /\ (q.pc = "done" /\ q.response.success)
           => /\ q.last.kind = "result"
              /\ isContentSufficient(q.last.content, q.last.statusCode)

\* a request won by the browser step after both fast steps, with steps left untried
C1_Witness ==
  \E r \in Requests :
    /\ Won(req[r])
    /\ Len(req[r].calls) = 3 /\ Len(req[r].chain) = 6
    /\ req[r].winningStep.engine = "browser"

(***************************************************************************)
(* C2.  The step that ends an escalation with a non-default winner leaves  *)
(* a profile for the domain in the store whose engine, render delay and    *)
(* proxy flag are those of the winning step.                               *)
(***************************************************************************)
C2_WinnerIsPersisted ==
  [][\A r \in Requests :
       (Finished(r) /\ Won(req'[r]) /\ ~isDefault(req'[r].winningStep)) =>
         LET p == getProfile(profiles', req'[r].domain)
             w == req'[r].winningStep
         IN /\ p # NoProfile
            /\ p.engine = w.engine
            /\ p.render_delay_ms = w.renderDelayMs
            /\ p.use_proxy = w.useProxy]_vars

\* the single-page app: the fast steps returned the empty shell, the remote
\* browser the rendered page, and the profile says engine = browser
C2_Witness ==
  \E r \in Requests :
    /\ Won(req[r])
    /\ req[r].domain = <<"api", "example", "com">>
    /\ req[r].winningStep.engine = "browser"
    /\ req[r].response.content = Rendered7K
    /\ getProfile(profiles, req[r].domain).engine = "browser"
    /\ getProfile(profiles, req[r].domain).render_delay_ms = 2000

C4_CachedFailureIsReported ==
  [][\A r \in Requests :
       /\ (Finished(r) /\ req[r].path = "cached" /\ req'[r].last.kind = "throw")
            => /\ req'[r].response.success = FALSE
               /\ req'[r].response.error # ""
               /\ req'[r].calls = req[r].calls
               /\ Len(req'[r].calls) = 1
               /\ profiles' = profiles
       /\ (Stepped(r) /\ req'[r].path = "cached")
            => ConfigFields(profiles') = ConfigFields(profiles)]_vars

\* the cached call failed and the profile is still in the store
C4_Witness ==
  \E r \in Requests :
    /\ req[r].pc = "done" /\ req[r].path = "cached"
    /\ req[r].last.kind = "throw"
    /\ ~req[r].response.success
    /\ getProfile(profiles, req[r].domain) # NoProfile
    /\ ConfigFields({getProfile(profiles, req[r].domain)}) = ConfigFields({req[r].cachedProfile})

(***************************************************************************)
(* C5.  Every auto-mode request with responseType base64 is served by one  *)
(* call of the fast engine, cached profile or not.                         *)
(***************************************************************************)
C5_Base64AlwaysFast ==
  \A r \in Requests :
    (req[r].path \in {"cached", "base64", "escalate"} /\ req[r].responseType = "base64")
      => /\ Len(req[r].calls) = 1
         /\ req[r].calls[1].crawler = "FastCrawler"

(***************************************************************************)
(* C6.  The step that ends an escalation with the default winner (fast     *)
(* engine through the proxy) leaves the profile store as it was: the       *)
(* domain has no profile before the step and none after it.                *)
(***************************************************************************)
C6_DefaultWinnerWritesNothing ==
  [][\A r \in Requests :
       (Finished(r) /\ Won(req'[r])
        /\ req'[r].winningStep.engine = "fast" /\ req'[r].winningStep.useProxy)
         => /\ profiles' = profiles
            /\ (getProfile(profiles, req'[r].domain) = NoProfile
                  => getProfile(profiles', req'[r].domain) = NoProfile)]_vars

\* the proxied fast step won and the domain has no profile
C6_Witness ==
  \E r \in Requests :
    /\ Won(req[r])
    /\ req[r].winningStep.engine = "fast" /\ req[r].winningStep.useProxy
    /\ Len(req[r].calls) = 1
    /\ getProfile(profiles, req[r].domain) = NoProfile

(***************************************************************************)
(* C7.  As claimed: a win of a fast-engine step, proxied or direct, writes *)
(* no profile.                                                             *)
(***************************************************************************)
C7_FastWinWritesNothing ==
  [][\A r \in Requests :
       (Finished(r) /\ Won(req'[r]) /\ req'[r].winningStep.engine = "fast")
         => profiles' = profiles]_vars

(***************************************************************************)
(* C7, amended.  A win of the proxied fast step writes no profile; a win   *)
(* of the direct fast step writes the profile engine = fast, use_proxy =   *)
(* false, render delay 0 for the domain.                                   *)
(***************************************************************************)
C7_OnlyProxiedFastWinWritesNothing ==
  [][\A r \in Requests :
       (Finished(r) /\ Won(req'[r]) /\ req'[r].winningStep.engine = "fast")
         => IF req'[r].winningStep.useProxy
            THEN profiles' = profiles
            ELSE LET p == getProfile(profiles', req'[r].domain)
                 IN /\ p.engine = "fast" /\ p.use_proxy = FALSE /\ p.render_delay_ms = 0
                    /\ profiles' # profiles]_vars

\* the direct fast step served the article and left a fast, direct profile
C7_Witness ==
  \E r \in Requests :
    /\ Won(req[r])
    /\ req[r].winningStep.engine = "fast" /\ ~req[r].winningStep.useProxy
    /\ req[r].response.content = Article1200
    /\ req[r].response.engineUsed = "crawlee:http"
    /\ getProfile(profiles, req[r].domain).engine = "fast"
    /\ ~getProfile(profiles, req[r].domain).use_proxy

(***************************************************************************)
(* C8.  The scenario: proxy and remote endpoint configured when the        *)
(* request arrives, the fast steps answer 403 with 600 bytes, the remote   *)
(* browser 200 with a 3 KB <body><noscript> shell, local stealth 15 KB.    *)
(***************************************************************************)
S3(q) ==
  /\ q.path = "escalate"
  /\ q.domain = <<"blocked", "test">>
  /\ q.chain = getAvailableEscalationChain(defaultConfig)

C9_ThrowContinuesLadder ==
  [][\A r \in Requests :
       (req[r].pc = "await" /\ req[r].path = "escalate" /\ Stepped(r)
        /\ req'[r].last.kind = "throw" /\ Len(req[r].calls) < Len(req[r].chain))
         => /\ req'[r].pc = "await"
            /\ req'[r].response = NoResponse
            /\ Len(req'[r].calls) = Len(req[r].calls) + 1
            /\ CallOfStep(req'[r].calls[Len(req'[r].calls)],
                          req[r].chain[Len(req[r].calls) + 1])
            /\ profiles' = profiles]_vars

\* the step before the pending one threw, and the ladder went on
C9_Witness ==
  \E r \in Requests :
    /\ req[r].path = "escalate" /\ req[r].pc = "await"
    /\ req[r].last.kind = "throw"
    /\ Len(req[r].calls) = 3

(***************************************************************************)
(* C10.  When the last ladder step throws or is insufficient too, the      *)
(* request ends with {success: false, error} under HTTP status 200, every  *)
(* step of the ladder has been called exactly once, and the profile store  *)
(* is unchanged; a failed escalation is never anything else.               *)
(***************************************************************************)
C10_ExhaustedEscalationFails ==
  [][\A r \in Requests :
       /\ (req[r].pc = "await" /\ req[r].path = "escalate" /\ Stepped(r)
           /\ Len(req[r].calls) = Len(req[r].chain)
           /\ (req'[r].last.kind = "throw"
               \/ ~isContentSufficient(req'[r].last.content, req'[r].last.statusCode)))
            => /\ req'[r].pc = "done"
               /\ req'[r].response.success = FALSE
               /\ req'[r].response.error # ""
               /\ req'[r].response.http = 200
               /\ profiles' = profiles
       /\ (Finished(r) /\ req'[r].path = "escalate" /\ ~req'[r].response.success)
            => /\ req'[r].response.http = 200
               /\ req'[r].response.error # ""
               /\ Len(req'[r].calls) = Len(req'[r].chain)
               /\ \A i \in 1..Len(req'[r].chain) :
                    CallOfStep(req'[r].calls[i], req'[r].chain[i])
               /\ profiles' = profiles]_vars

\* all six steps of the full ladder were tried and the request failed
C10_Witness ==
  \E r \in Requests :
    /\ req[r].pc = "done" /\ req[r].path = "escalate"
    /\ ~req[r].response.success /\ req[r].response.http = 200
    /\ Len(req[r].calls) = 6
    /\ getProfile(profiles, req[r].domain) = NoProfile

(***************************************************************************)
(* C11.  A request that names an engine other than auto makes one call,    *)
(* attemptFetch with that engine's crawler, and its next step ends it:     *)
(* a result is sent as it is, whatever the quality judge would say of it,  *)
(* an error becomes a failure response.  No step of the request looks up   *)
(* the domain's profile or changes the profile store, profile or not.      *)
(***************************************************************************)
CrawlerOfEngine(engine) ==
  CASE engine = "fast" -> "FastCrawler"
    [] engine = "browser" -> "BrowserCrawler"
    [] engine = "stealth" -> "StealthCrawler"
    [] OTHER -> "none"

C11_ExplicitEngineRunsOnce ==
  [][\A r \in Requests :
       /\ (req[r].pc = "idle" /\ Stepped(r) /\ req'[r].pc = "await" /\ req'[r].engine # "auto")
            => /\ req'[r].path = "explicit"
               /\ req'[r].chain = << >>
               /\ req'[r].cachedProfile = NoProfile
               /\ Len(req'[r].calls) = 1
               /\ req'[r].calls[1].fn = "attemptFetch"
               /\ req'[r].calls[1].engineType = req'[r].engine
               /\ req'[r].calls[1].crawler = CrawlerOfEngine(req'[r].engine)
               /\ profiles' = profiles
       /\ (req[r].path = "explicit" /\ Stepped(r))
            => /\ Finished(r)
               /\ req'[r].calls = req[r].calls
               /\ profiles' = profiles
               /\ req'[r].last.kind = "throw"
                    => ~req'[r].response.success /\ req'[r].response.error # ""
               /\ req'[r].last.kind = "result"
                    => req'[r].response = SuccessResponse(req'[r].last)]_vars

\* engine = fast on a domain with a profile: the 403 page the judge would
\* reject is the response, and the profile has not been used
C11_Witness ==
  \E r \in Requests :
    /\ req[r].pc = "done" /\ req[r].engine = "fast"
    /\ getProfile(profiles, req[r].domain) # NoProfile
    /\ getProfile(profiles, req[r].domain).hit_count = 1
    /\ req[r].response.success
    /\ req[r].response.statusCode = 403
    /\ ~isContentSufficient(req[r].response.content, req[r].response.statusCode)

(***************************************************************************)
(* C12.  The win that creates a domain's profile leaves hit_count = 1; the *)
(* arrival of an auto-mode request at a cached profile adds exactly 1 to   *)
(* the hit_count of that profile and changes no other row; the end of the  *)
(* cached call, result or error, changes nothing.  So as long as no        *)
(* operator has touched the store, hit_count of a profile is the number of *)
(* wins that wrote it plus the number of requests served from it.          *)
(***************************************************************************)
ServedFromCache(q, domain) == q.path = "cached" /\ q.domain = domain

WroteProfile(q, domain) == Won(q) /\ ~isDefault(q.winningStep) /\ q.domain = domain

C12_HitCountCountsCachedRequests ==
  [][\A r \in Requests :
       LET d == req'[r].domain IN
       /\ (Finished(r) /\ WroteProfile(req'[r], d) /\ getProfile(profiles, d) = NoProfile)
            => getProfile(profiles', d).hit_count = 1
       /\ (req[r].pc = "idle" /\ Stepped(r) /\ req'[r].path = "cached")
            => /\ getProfile(profiles', d).hit_count = getProfile(profiles, d).hit_count + 1
               /\ deleteProfile(profiles', d) = deleteProfile(profiles, d)
               /\ ConfigFields(profiles') = ConfigFields(profiles)
       /\ (Finished(r) /\ req[r].path = "cached") => profiles' = profiles
       /\ operatorOps' = 0
            => \A row \in profiles' :
                 row.hit_count =
                   Cardinality({q \in Requests : WroteProfile(req'[q], row.domain)})
                   + Cardinality({q \in Requests : ServedFromCache(req'[q], row.domain)})]_vars

\* one request won and created the profile, the next one was served from it
\* and its call failed: hit_count = 2
C12_Witness ==
  \E r, q \in Requests :
    /\ operatorOps = 0
    /\ WroteProfile(req[r], req[r].domain)
    /\ req[q].pc = "done" /\ ServedFromCache(req[q], req[r].domain)
    /\ req[q].last.kind = "throw"
    /\ getProfile(profiles, req[r].domain).hit_count = 2

(***************************************************************************)
(* C20.  A step of a request whose caller has cancelled leaves the profile *)
(* store as it was.                                                        *)
(***************************************************************************)
C20_CancelledWritesNothing ==
  [][\A r \in Requests :
       (req[r].cancelled /\ Stepped(r)) => profiles' = profiles]_vars
(***************************************************************************)
(* Vocabulary of the pool properties.                                      *)
(***************************************************************************)
\* the fetches whose tab is counted on slot s: between the increment of
\* _fetchInSlot and its finally block
InFlight(s) ==
  {c \in Callers : fetches[c].slot = s /\ fetches[c].pc \in TabOps \cup {"sleep"}}

\* no fetchInTab call is running
Quiescent == \A c \in Callers : fetches[c].pc = "idle"

(***************************************************************************)
(* C13: for every slot, in every reachable state, activeTabCount is at     *)
(* least 0 and equals the number of fetches that have made their increment *)
(* and not yet their decrement, whichever way they leave (success, tab     *)
(* error, connection lost with retry, failed retry, failed connection      *)
(* attempt); so it is 0 whenever no fetch is in flight on the slot.        *)
(***************************************************************************)
C13_ActiveTabCountBalanced ==
  \A s \in SlotIds :
    /\ slots[s].activeTabCount >= 0
    /\ slots[s].activeTabCount = Cardinality(InFlight(s))

\* a call whose first attempt lost its connection and whose retry failed has
\* returned, while another call is still counted on the slot
C13_Witness ==
  \E c, d \in Callers :
    /\ fetches[c].pc = "idle"
    /\ fetches[c].result = "error"
    /\ Len(connections) >= 2
    /\ fetches[d].pc \in TabOps
    /\ slots[fetches[d].slot].activeTabCount = 1

(***************************************************************************)
(* C14: after the N concurrent fetchInTab calls dispatched to a slot have  *)
(* all finished, the slot's activeTabCount is 0 and its tabsUsed is N.     *)
(* Stated for the most favourable runs: the pool started with its counters *)
(* at 0, each caller has made one call, every call has returned a result,  *)
(* one connection was made and it is still up.                             *)
(***************************************************************************)
C14_TabsUsedCountsCalls ==
  ( /\ Quiescent
    /\ roundRobinIndex = Cardinality(Callers)
    /\ \A c \in Callers : fetches[c].result = "ok"
    /\ Len(connections) = 1
    /\ connections[1].connected )
  => \A s \in SlotIds :
       /\ slots[s].activeTabCount = 0
       /\ slots[s].tabsUsed = dispatched[s]

\* the fetches whose tab is counted and runs on connection h
TabsOn(h) ==
  {c \in Callers : fetches[c].pc \in TabOps \cup {"sleep"} /\ fetches[c].h = h}

C16_RecyclingSparesTabsInFlight ==
  [][\A c \in Callers :
       /\ ( fetches'[c].pc \in {"closeKeepalive", "disconnect"}
            /\ fetches[c].pc \notin {"closeKeepalive", "disconnect"} )
          => /\ TabsOn(fetches'[c].recycling) = {}
             /\ slots[fetches'[c].slot].activeTabCount = 0
       /\ ( fetches'[c].pc = "disconnect" /\ fetches[c].pc # "disconnect" )
          => TabsOn(fetches'[c].h) = {}
       /\ ( /\ fetches[c].pc = "idle"
            /\ fetches'[c].pc # "idle"
            /\ slots[fetches'[c].slot].stale
            /\ slots[fetches'[c].slot].activeTabCount > 0
            /\ browserIsConnected(Pool, slots[fetches'[c].slot].browser) )
          => /\ fetches'[c].pc = "newPage"
             /\ fetches'[c].h = slots[fetches'[c].slot].browser
             /\ connections'[fetches'[c].h].connected
  ]_vars

(***************************************************************************)
(* C17: recycling bounds the tabs opened on one connection, whatever the   *)
(* arrival pattern: tabsUsed never exceeds MAX_TABS_BEFORE_RECYCLE by more *)
(* than the number of callers that can have a fetch in flight at once.     *)
(***************************************************************************)
C17_TabsUsedBounded ==
  \A s \in SlotIds :
    slots[s].tabsUsed <= MAX_TABS_BEFORE_RECYCLE + Cardinality(Callers)

(***************************************************************************)
(* C18: when a tab operation of a fetch is rejected, then: if the          *)
(* connection the tab ran on is gone and the call has not retried yet, the *)
(* call reconnects and retries on the same slot; if the call has retried,  *)
(* the error is returned; if the connection the tab ran on is up, the      *)
(* error is returned without a retry.                                      *)
(***************************************************************************)
C18_RetryOnceOnConnectionLoss ==
  [][\A c \in Callers :
       ( /\ fetches[c].pc \in TabOps
         /\ fetches'[c].pc \notin TabOps \cup {"sleep"}
         /\ fetches'[c].result # "ok" )
       => LET retried == /\ fetches'[c].pc \in {"connect", "waitConnect"}
                         /\ ~fetches'[c].allowRetry
                         /\ fetches'[c].slot = fetches[c].slot
              returned == /\ fetches'[c].pc \in {"close", "idle"}
                          /\ fetches'[c].result = "error"
          IN  /\ (~browserIsConnected(Pool, fetches[c].h) /\ fetches[c].allowRetry)
                   => retried
              /\ ~fetches[c].allowRetry => returned
              /\ browserIsConnected(Pool, fetches[c].h) => returned
  ]_vars

\* the callers running a connection attempt (doConnect) for slot s
Connecting(s) ==
  {c \in Frames : fetches[c].slot = s /\ fetches[c].pc \in {"connect"} \cup SetupOps}

(***************************************************************************)
(* C19: for each slot at most one connection attempt is in progress at any *)
(* time; the connecting sentinel is set exactly while an attempt is in     *)
(* progress (so it is cleared when the attempt ends, whether it succeeded  *)
(* or failed), and a caller waits on it only until then.                   *)
(***************************************************************************)
C19_SingleFlightConnect ==
  \A s \in SlotIds :
    /\ Cardinality(Connecting(s)) <= 1
    /\ slots[s].connecting <=> Connecting(s) # {}
    /\ \A c \in Callers :
         (fetches[c].slot = s /\ fetches[c].pc = "waitConnect"
            /\ fetches[c].settled = "pending")
           => Connecting(s) # {}

\* one caller runs the attempt while the other waits on the sentinel
C19_Witness ==
  \E c, d \in Callers :
    /\ fetches[c].pc = "connect"
    /\ fetches[d].pc = "waitConnect"
    /\ fetches[d].settled = "pending"
    /\ fetches[d].slot = fetches[c].slot
    /\ slots[fetches[c].slot].connecting

(***************************************************************************)
(* C28: after any sequence of fetch requests and admin profile operations, *)
(* every profile in the store has an engine among fast, browser, stealth   *)
(* and unblock.                                                            *)
(***************************************************************************)
C28_StoredEnginesAreKnown ==
  \A row \in profiles : row.engine \in {"fast", "browser", "stealth", "unblock"}

\* engine, proxy use and render delay of the steps of a chain, in order
LadderShape(chain) ==
  [i \in DOMAIN chain |-> <<chain[i].engine, chain[i].useProxy, chain[i].renderDelayMs>>]

(***************************************************************************)
(* C29: the ladder a request builds on a cache miss is, in this order:     *)
(* fast with proxy (only if a proxy is configured), fast direct, remote    *)
(* browser with 2000 ms (only if a remote endpoint is configured), local   *)
(* stealth with 3000 ms, local stealth with 5000 ms and unblock (both only *)
(* if a remote endpoint is configured); so it is never empty and always    *)
(* holds fast direct and stealth 3000 ms.                                  *)
(***************************************************************************)
C29_LadderFollowsConfiguration ==
  [][\A r \in Requests :
       (req[r].pc = "idle" /\ req'[r].path = "escalate")
       => LET hasProxy == globalConfig.proxyUrl # ""
              hasRemote == globalConfig.browserlessUrl # ""
              shape == LadderShape(req'[r].chain)
          IN  /\ shape =
                   (IF hasProxy THEN << <<"fast", TRUE, 0>> >> ELSE << >>)
                   \o << <<"fast", FALSE, 0>> >>
                   \o (IF hasRemote THEN << <<"browser", FALSE, 2000>> >> ELSE << >>)
                   \o << <<"stealth", FALSE, 3000>> >>
                   \o (IF hasRemote
                         THEN << <<"stealth", FALSE, 5000>>, <<"unblock", FALSE, 0>> >>
                         ELSE << >>)
              /\ shape # << >>
              /\ \E i \in DOMAIN shape : shape[i] = <<"fast", FALSE, 0>>
              /\ \E i \in DOMAIN shape : shape[i] = <<"stealth", FALSE, 3000>>
  ]_vars

\* a request walks the ladder of a service with neither proxy nor remote
\* endpoint, and is at its second and last step
C29_Witness ==
  \E r \in Requests :
    /\ req[r].path = "escalate"
    /\ Len(req[r].chain) = 2
    /\ Len(req[r].calls) = 2
    /\ req[r].calls[2].crawler = "StealthCrawler"

(***************************************************************************)
(* C30: connect(config) is idempotent.  Called on a pool whose slots are   *)
(* all connected, it returns having opened no connection and with every    *)
(* slot's handle, tabsUsed, stale and activeTabCount as they were; called  *)
(* while a connection attempt of a slot is in progress, it starts no       *)
(* second attempt for that slot.                                           *)
(***************************************************************************)
AllConnected == \A s \in SlotIds : browserIsConnected(Pool, slots[s].browser)

\* the step is a call of connect
ConnectCalled == connectCalls' = connectCalls + 1

\* the call of connect has returned within the step, and nothing of the
\* slots' connections has changed
ConnectLeftPoolAlone ==
  /\ \A s \in SlotIds : fetches'[Warmer(s)].pc = "idle" /\ fetches'[Warmer(s)].result = "ok"
  /\ connections' = connections
  /\ \A s \in SlotIds :
       /\ slots'[s].browser = slots[s].browser
       /\ slots'[s].tabsUsed = slots[s].tabsUsed
       /\ slots'[s].stale = slots[s].stale
       /\ slots'[s].activeTabCount = slots[s].activeTabCount

\* the attempts in progress are the same after the call: it started none
ConnectStartedNoSecondAttempt ==
  \A s \in SlotIds :
    Connecting(s) # {} => (Connecting(s))' = Connecting(s)

NoSlotDueForRecycling ==
  \A s \in SlotIds : ~(slots[s].stale /\ slots[s].activeTabCount = 0)

Judged == probe.fn = "isContentSufficient"

C24_LongBodyIsSufficient ==
  (Judged /\ probe.arg.statusCode = 200 /\ probe.arg.content.length > 5000)
    => probe.out = TRUE

\* the judge has accepted a body of 5001 characters that matches a shell
\* pattern and has neither text elements nor structure
C24_Witness ==
  /\ Judged
  /\ probe.arg = [content |-> Body(5001, TRUE, 0, FALSE), statusCode |-> 200]
  /\ probe.out = TRUE

(***************************************************************************)
(* C25: a body that contains <div id="root"></div> and is shorter than     *)
(* 2000 characters is judged insufficient for status 200, whatever its     *)
(* text elements and structure.                                            *)
(***************************************************************************)
C25_ShortShellIsInsufficient ==
  (Judged /\ probe.arg.statusCode = 200 /\ probe.arg.content.spaShell
     /\ probe.arg.content.length < 2000)
    => probe.out = FALSE

\* the judge has refused a shell of 1999 characters that has 12 text
\* elements and structure
C25_Witness ==
  /\ Judged
  /\ probe.arg = [content |-> Body(1999, TRUE, 12, TRUE), statusCode |-> 200]
  /\ probe.out = FALSE

(***************************************************************************)
(* C26: extractDomain lower-cases the hostname and strips one leading      *)
(* "www.", whatever the scheme, port and path: https://WWW.Example.com/foo *)
(* and http://example.com:8080 both give example.com, and api.example.com  *)
(* is another key.                                                         *)
(***************************************************************************)
DomainExtracted == probe.fn = "extractDomain"

\* the hostname in lower case, without one leading "www." if more follows
CanonicalHost(host) ==
  LET lower == toLowerCase(host)
  IN  IF Len(lower) > 1 /\ lower[1] = "www" THEN SubSeq(lower, 2, Len(lower)) ELSE lower

Upserted == probe'.fn = "upsertProfile" /\ profiles' # profiles

RowsOf(rows, d) == {row \in rows : row.domain = d}

C27_UpsertKeepsOneProfilePerDomain ==
  [][Upserted =>
       LET d == probe'.arg.domain
           input == probe'.arg.input
           old == RowsOf(profiles, d)
           new == RowsOf(profiles', d)
       IN  /\ Cardinality(new) = 1
           /\ profiles' \ new = profiles \ old
           /\ \A row \in new :
                /\ row.engine = input.engine
                /\ row.render_js = Opt(input, "renderJs", FALSE)
                /\ row.render_delay_ms = Opt(input, "renderDelayMs", 0)
                /\ row.use_proxy = Opt(input, "useProxy", TRUE)
                /\ row.preset = Opt(input, "preset", "null")
                /\ row.last_status_code = Opt(input, "lastStatusCode", 0)
                /\ old = {} => row.hit_count = 1
                /\ \A before \in old : row.hit_count = before.hit_count + 1
  ]_vars

\* the profile of example.com has been overwritten by a second upsert, next
\* to the profile of another domain
C27_Witness ==
  /\ probe.fn = "upsertProfile"
  /\ probe.arg.domain = <<"example", "com">>
  /\ probe.arg.input.engine = "stealth"
  /\ \E row \in profiles :
       row.domain = <<"example", "com">> /\ row.hit_count = 2 /\ row.engine = "stealth"
  /\ \E row \in profiles : row.domain = <<"api", "example", "com">>

(***************************************************************************)
(* C21: the steps of one advanced fetch are strictly ordered: listener and *)
(* headers before the navigation, jsAction after the navigation, the       *)
(* downloads after jsAction, and the read of the main page's DOM last,     *)
(* after all downloads.                                                    *)
(***************************************************************************)
\* in log, every x stands before every y
Before(log, x, y) ==
  \A i, j \in DOMAIN log : (log[i] = x /\ log[j] = y) => i < j

\* in log, a y stands only after an x
OnlyAfter(log, x, y) ==
  \A j \in DOMAIN log : log[j] = y => \E i \in 1..(j - 1) : log[i] = x

HooksThenNavigationThenJsAction ==
  /\ Before(adv.log, "listener", "goto")
  /\ Before(adv.log, "headers", "goto")
  /\ Before(adv.log, "listener", "headers")
  /\ OnlyAfter(adv.log, "goto", "jsAction")
  /\ OnlyAfter(adv.log, "goto", "content")
  /\ Before(adv.log, "jsAction", "download")
  /\ Before(adv.log, "jsAction", "content")

C22_BothListsAlwaysEmitted ==
  (adv.pc = "done" /\ adv.response.success)
    => {"apiCalls", "resources"} \subseteq adv.response.keys

(***************************************************************************)
(* C23: the result holds exactly one resources entry per URL of            *)
(* imagesToDownload, in request order, with status success or error; a     *)
(* download that throws, times out or is answered with another status than *)
(* 200 gives an error entry for its URL only, the next URLs are still      *)
(* processed and the request succeeds; the download tab is closed on every *)
(* path out of the loop body.                                              *)
(***************************************************************************)
EntriesFollowRequest(resources, images) ==
  /\ Len(resources) <= Len(images)
  /\ \A j \in DOMAIN resources :
       /\ resources[j].originalUrl = images[j]
       /\ resources[j].status \in {"success", "error"}

\* the step ends a download without a 200 answer in hand
DownloadFailed ==
  \/ DownloadThrows
  \/ \E status \in {0, 404} : ImageAnswered(status)

C40_UploadFailureKeepsSuccess ==
  /\ []((adv.pc = "done" /\ adv.result)
         => /\ adv.response.success
            /\ Len(adv.response.resources) = Len(adv.request.imagesToDownload))
  /\ [][UploadAnswered(FALSE) =>
          /\ adv'.resources =
               Append(adv.resources,
                      [originalUrl |-> adv.request.imagesToDownload[adv.i],
                       status |-> "success", uploadedUrl |-> FALSE])
          /\ adv'.pc = "closeTab"
          /\ adv'.i = adv.i
          /\ ~adv'.error
     ]_vars

\* the upload of the first image failed, the second image was downloaded and
\* uploaded, and the request has been answered with success
C40_Witness ==
  /\ adv.pc = "done"
  /\ adv.request.uploadConfig
  /\ adv.response.success
  /\ Len(adv.response.resources) = 2
  /\ adv.response.resources[1].status = "success"
  /\ ~adv.response.resources[1].uploadedUrl
  /\ adv.response.resources[2].status = "success"
  /\ adv.response.resources[2].uploadedUrl

(***************************************************************************)
(* C31: the engineUsed label of a response served by the fast engine       *)
(* through the proxy differs from the label of a response served by the    *)
(* fast engine directly, so the caller can tell the two fast steps apart.  *)
(***************************************************************************)
\* request r has been answered with the result of a fast engine call
ServedByFast(r) ==
  /\ req[r].pc = "done"
  /\ req[r].response.success
  /\ req[r].calls # << >>
  /\ req[r].calls[Len(req[r].calls)].crawler = "FastCrawler"

C31_FastLabelTellsProxyFromDirect ==
  \A r, q \in Requests :
    (/\ ServedByFast(r) /\ req[r].calls[Len(req[r].calls)].proxy # ""
     /\ ServedByFast(q) /\ req[q].calls[Len(req[q].calls)].proxy = "")
      => req[r].response.engineUsed # req[q].response.engineUsed

(***************************************************************************)
(* C37: on the cached-profile path the judge is not applied: when the one  *)
(* engine call returns a result, the response is success:true with that    *)
(* result, also for status 403, 429, 503 or a body shorter than 500        *)
(* characters, and the profile keeps everything but hit_count.             *)
(***************************************************************************)
C37_CachedResultIsNotJudged ==
  [][\A r \in Requests :
       /\ (Finished(r) /\ req[r].path = "cached" /\ req'[r].last.kind = "result")
            => /\ req'[r].response = SuccessResponse(req'[r].last)
               /\ req'[r].response.success
               /\ req'[r].response.statusCode = req'[r].last.statusCode
               /\ req'[r].response.content = req'[r].last.content
               /\ profiles' = profiles
       /\ (req[r].pc = "idle" /\ Stepped(r) /\ req'[r].path = "cached")
            => /\ ConfigFields(profiles') = ConfigFields(profiles)
               /\ deleteProfile(profiles', req'[r].domain)
                    = deleteProfile(profiles, req'[r].domain)
  ]_vars

\* a request served from a profile has been answered success:true with the
\* 403 page the judge refuses, and the profile is still there
C37_Witness ==
  \E r \in Requests :
    /\ req[r].pc = "done" /\ req[r].path = "cached"
    /\ req[r].response.success
    /\ req[r].response.statusCode = 403
    /\ ~isContentSufficient(req[r].response.content, req[r].response.statusCode)
    /\ getProfile(profiles, req[r].domain) # NoProfile
    /\ getProfile(profiles, req[r].domain).engine = req[r].cachedProfile.engine

(***************************************************************************)
(* C39: after any sequence of fetch requests and admin profile operations  *)
(* every key of the profile store is a canonical domain (lower case, no    *)
(* leading "www."), so every stored profile is the one an auto-mode fetch  *)
(* of a URL on that host looks up.                                         *)
(***************************************************************************)
C39_StoredKeysAreCanonical ==
  \A row \in profiles :
    /\ row.domain = CanonicalHost(row.domain)
    /\ \A u \in Urls :
         u.host = row.domain => getProfile(profiles, extractDomain(u)) = row

(***************************************************************************)
(* C36: concurrent auto-mode requests for one domain without profile each  *)
(* walk the ladder on their own; the store holds at most one profile of    *)
(* the domain; after a non-default win the profile has the configuration   *)
(* of that winning step (so the last upsert decides), with hit_count 1 for *)
(* the first such win and one more for every later one.                    *)
(***************************************************************************)
\* another request is walking the ladder for the domain of r
WalksBeside(r, q) ==
  /\ q # r
  /\ req[q].path = "escalate" /\ req[q].pc = "await"
  /\ req[q].domain = req'[r].domain

C36_ConcurrentWinnersLastUpsertDecides ==
  /\ [](\A row \in profiles : Cardinality(RowsOf(profiles, row.domain)) = 1)
  /\ [][\A r \in Requests :
          /\ (req[r].pc = "idle" /\ req'[r].path = "escalate"
              /\ \E q \in Requests : WalksBeside(r, q))
               => /\ req'[r].chain = getAvailableEscalationChain(globalConfig)
                  /\ req'[r].calls
                       = <<StepCall(req'[r].chain[1], req'[r].responseType, globalConfig)>>
                  /\ \A q \in Requests \ {r} : req'[q] = req[q]
          /\ (Finished(r) /\ Won(req'[r]))
               => LET d == req'[r].domain
                      step == req'[r].winningStep
                      old == RowsOf(profiles, d)
                  IN  IF isDefault(step)
                        THEN profiles' = profiles
                        ELSE /\ profiles' \ RowsOf(profiles', d) = profiles \ old
                             /\ RowsOf(profiles', d) =
                                  {Row(d, step.engine, step.renderJs, step.renderDelayMs,
                                       step.useProxy,
                                       IF step.engine # "fast" THEN "chrome" ELSE "null",
                                       IF old = {} THEN 1
                                         ELSE getProfile(profiles, d).hit_count + 1,
                                       req'[r].last.statusCode)}
     ]_vars

\* two requests walked the ladder for the same domain side by side and won
\* with different steps: one profile, written twice
C36_Witness ==
  \E r, q \in Requests :
    /\ r # q
    /\ Won(req[r]) /\ Won(req[q])
    /\ req[r].domain = req[q].domain
    /\ req[r].cachedProfile = NoProfile /\ req[q].cachedProfile = NoProfile
    /\ ~isDefault(req[r].winningStep) /\ ~isDefault(req[q].winningStep)
    /\ req[r].winningStep # req[q].winningStep
    /\ Cardinality(RowsOf(profiles, req[r].domain)) = 1
    /\ getProfile(profiles, req[r].domain).hit_count = 2
    /\ getProfile(profiles, req[r].domain).engine = req[q].winningStep.engine

(***************************************************************************)
(* C32: the k-th call of fetchInTab (from 0) goes to slot k mod 4,         *)
(* whatever the connection state of the slots: 4 consecutive calls use 4   *)
(* distinct slots, a call whose slot cannot be connected fails without     *)
(* being moved to another slot, and a retry stays on its slot and does not *)
(* advance the round-robin index.                                          *)
(***************************************************************************)
\* the step is a call of fetchInTab by c (the calls are made one after the
\* other by the caller f1)
Dispatched(c) == fetches[c].pc = "idle" /\ roundRobinIndex' # roundRobinIndex

\* the step is the retry of c: _fetchInSlot called again with allowRetry false
Retried(c) == fetches[c].allowRetry /\ fetches[c].pc # "idle" /\ ~fetches'[c].allowRetry

SetupCompleted(c) ==
  /\ fetches[c].pc = "blank"
  /\ fetches'[c].pc = "newPage"
  /\ fetches'[c].h = fetches[c].h

\* the step is the entry of c into a tab on slot s
TabEntered(c, s) ==
  /\ fetches'[c].pc = "newPage"
  /\ fetches[c].pc # "newPage"
  /\ fetches'[c].slot = s

C34_NoTabBeforeSetupFinished ==
  /\ [](\A s \in SlotIds :
          slots[s].browser # 0 => Cardinality(TabsOn(slots[s].browser)) <= slots[s].tabsUsed)
  /\ [][\A c \in Callers, s \in SlotIds :
          (TabEntered(c, s) /\ fetches'[c].h # 0 /\ connections'[fetches'[c].h].connected)
            => /\ connections'[fetches'[c].h].listening
               /\ slots'[s].keepalivePage = fetches'[c].h
     ]_vars

(***************************************************************************)
(* C35: the handle of the current connection of a slot is cleared or       *)
(* disconnected only because of that connection: it closes by itself, its  *)
(* own set-up fails, or a fetch that found it stale and idle recycles it.  *)
(* Neither the listener of a former connection nor a fetch that was        *)
(* recycling a former connection clears or disconnects a newer one.        *)
(***************************************************************************)
\* the step takes the connected handle b away from slot s, or closes it
HandleDropped(s, b) ==
  /\ slots[s].browser = b
  /\ browserIsConnected(Pool, b)
  /\ (slots'[s].browser # b \/ ~connections'[b].connected)

\* the step is the loss of connection b itself: no call moves
LostItself(b) == ~connections'[b].connected /\ fetches' = fetches

\* the step is the catch of the doConnect that was setting up b
OwnSetupFailed(b) ==
  \E c \in Frames :
    /\ fetches[c].pc \in SetupOps
    /\ fetches[c].h = b
    /\ fetches'[c].pc \notin SetupOps

\* the step is the browser.disconnect() of a call that found b stale and idle
RecycledByFinder(b) ==
  \E c \in Frames :
    /\ fetches[c].pc # "disconnect"
    /\ fetches'[c].pc = "disconnect"
    /\ fetches'[c].h = b
    /\ fetches'[c].recycling = b

C35_HandleDroppedOnlyForItsConnection ==
  [][\A s \in SlotIds, b \in DOMAIN connections :
       HandleDropped(s, b) => (LostItself(b) \/ OwnSetupFailed(b) \/ RecycledByFinder(b))
  ]_vars

=============================================================================
